---- MODULE Spec2Model ----
(***************************************************************************)
(* State-machine model of the ELEVEA backend (src/src): the SQLite tables  *)
(* users, sites, settings_kv and feedbacks, the services that read and     *)
(* write them, and the Express route handlers in front of the services.    *)
(*                                                                         *)
(* Text values are sequences of one-character strings, so that trim and    *)
(* case folding are computed; SQL NULL / JS null is the sequence NULL and  *)
(* JS undefined the sequence UNDEFINED.  A stored date is the text         *)
(* <<day, separator, time of day>>: SQLite's datetime() writes the         *)
(* separator " ", an ISO-8601 string (JS toISOString) writes "T".          *)
(***************************************************************************)
EXTENDS Integers, Sequences, FiniteSets, TLC

VARIABLES
    now,          \* the wall clock, in units of 1/UnitsPerDay day (UTC)
    users,        \* table users: sequence of rows, id = index
    sites,        \* table sites: function from the stored slug to the row
    settings_kv,  \* table settings_kv: sequence of snapshots, id = index
    feedbacks,    \* table feedbacks: sequence of rows, id = index
    tokens,       \* the JWT payloads signed so far (generateToken)
    assets,       \* table assets: set of rows
    leads,        \* table leads: sequence of rows, id = index
    running,      \* the executions of processGracePeriodCheck in progress
    storageFeedbacks, \* table feedbacks of SqliteStorage: rows, id = index
    last          \* the last operation: its input and what it returned

vars == <<now, users, sites, settings_kv, feedbacks, tokens, assets, leads,
          running, storageFeedbacks, last>>

-----------------------------------------------------------------------------
(* Bounds of the model *)

UnitsPerDay == 2
MaxTicks == 1
MaxUsers == 4
MaxSites == 2
MaxSnapshots == 2
MaxFeedbacks == 3
MaxLeads == 2
MaxRunning == 2
MaxStoreRows == 3
RatingScale == 2

(* Program constants *)

GRACE_DAYS == 3
SEED_BILLING_DAYS == 30

-----------------------------------------------------------------------------
(* Text *)

NULL == <<"null">>
UNDEFINED == <<"undefined">>

IsString(s) == s # NULL /\ s # UNDEFINED

\* JS truthiness of a string-or-null value: null, undefined and "" are falsy
Truthy(s) == IsString(s) /\ s # <<>>

UpperChar(c) ==
    CASE c = "s" -> "S"
      [] c = "d" -> "D"
      [] c = "x" -> "X"
      [] c = "n" -> "N"
      [] c = "c" -> "C"
      [] c = "a" -> "A"
      [] OTHER -> c

LowerChar(c) ==
    CASE c = "S" -> "s"
      [] c = "D" -> "d"
      [] c = "X" -> "x"
      [] c = "N" -> "n"
      [] c = "C" -> "c"
      [] c = "A" -> "a"
      [] OTHER -> c

ToUpperCase(s) == [i \in 1..Len(s) |-> UpperChar(s[i])]

ToLowerCase(s) == [i \in 1..Len(s) |-> LowerChar(s[i])]

RECURSIVE TrimStart(_)
TrimStart(s) == IF s # <<>> /\ Head(s) = " " THEN TrimStart(Tail(s)) ELSE s

RECURSIVE TrimEnd(_)
TrimEnd(s) ==
    IF s # <<>> /\ s[Len(s)] = " " THEN TrimEnd(SubSeq(s, 1, Len(s) - 1)) ELSE s

Trim(s) == TrimEnd(TrimStart(s))

\* SiteService.normalizeSiteSlug, defined on strings only: on null or
\* undefined `slug.trim()` raises a TypeError (see NormalizeThrows).
normalizeSiteSlug(slug) == ToUpperCase(Trim(slug))

NormalizeThrows(slug) == ~IsString(slug)

-----------------------------------------------------------------------------
(* Dates *)

DayOf(t) == t \div UnitsPerDay
TimeOf(t) == t % UnitsPerDay

\* datetime(...) of SQLite: 'YYYY-MM-DD HH:MM:SS'
FormatSql(t) == <<DayOf(t), " ", TimeOf(t)>>

\* Date.prototype.toISOString: 'YYYY-MM-DDTHH:MM:SS.sssZ'
FormatIso(t) == <<DayOf(t), "T", TimeOf(t)>>

\* new Date(text): both spellings denote the same instant (server in UTC)
ParseDate(text) == text[1] * UnitsPerDay + text[3]

\* byte order of the two separator characters: " " is 0x20, "T" is 0x54
SepOrd(c) == IF c = " " THEN 0 ELSE 1

\* SQLite's `a < b` on two TEXT values: bytewise (BINARY collation)
TextLess(a, b) ==
    \/ a[1] < b[1]
    \/ a[1] = b[1] /\ SepOrd(a[2]) < SepOrd(b[2])
    \/ a[1] = b[1] /\ a[2] = b[2] /\ a[3] < b[3]

GraceUnits == GRACE_DAYS * UnitsPerDay

\* the clock when the server starts; late enough for dates past the grace
\* period to be on the calendar
StartTime == (GRACE_DAYS + 1) * UnitsPerDay

-----------------------------------------------------------------------------
(* Secrets *)

\* bcrypt.hash(pin, 12), as bcrypt.compare sees it: compare(p, h) is true
\* exactly for the h made from p
Hash(pin) == <<"$2a$">> \o pin

BcryptCompare(pin, hash) == hash = Hash(pin)

-----------------------------------------------------------------------------
(* The tables after initDatabase() and seedDatabase() *)

NullDate == <<>>

AdminEmail == <<"a">>
ClientEmail == <<"c">>
ExampleSiteSlug == <<"S">>
ExampleSitePin == <<"1">>

SeedUsers ==
    << [role |-> "admin", email |-> AdminEmail, site_slug |-> NULL,
        plan |-> "vip", billing_status |-> "active", billing_next |-> NullDate,
        billing_amount |-> 0, billing_currency |-> "BRL",
        billing_provider |-> "mercadopago"],
       [role |-> "client", email |-> ClientEmail, site_slug |-> ExampleSiteSlug,
        plan |-> "vip", billing_status |-> "approved",
        billing_next |-> FormatSql(StartTime + SEED_BILLING_DAYS * UnitsPerDay),
        billing_amount |-> 97, billing_currency |-> "BRL",
        billing_provider |-> "mercadopago"] >>

SeedSites ==
    (ExampleSiteSlug :> [active |-> TRUE, vip_pin_hash |-> Hash(ExampleSitePin)])

-----------------------------------------------------------------------------
(* SiteService *)

getSite(ss, slug) ==
    LET n == normalizeSiteSlug(slug)
    IN  IF n \in DOMAIN ss THEN <<ss[n]>> ELSE <<>>

\* a toggle that inverts the flag instead of storing the given value
toggleSite_Invert(ss, slug, active) ==
    LET n == normalizeSiteSlug(slug)
    IN  IF n \in DOMAIN ss
        THEN [err |-> "none", sites |-> [ss EXCEPT ![n].active = ~@]]
        ELSE [err |-> "site_not_found", sites |-> ss]

\* UPDATE sites SET active = ? WHERE slug = ?; no row changed raises
toggleSite(ss, slug, active) ==
    LET n == normalizeSiteSlug(slug)
    IN  IF n \in DOMAIN ss
        THEN [err |-> "none", sites |-> [ss EXCEPT ![n].active = active]]
        ELSE [err |-> "site_not_found", sites |-> ss]

\* INSERT INTO sites; the UNIQUE constraint on slug raises
createSite(ss, slug, active, vipPin) ==
    LET n == normalizeSiteSlug(slug)
        h == IF Truthy(vipPin) THEN Hash(vipPin) ELSE NULL
    IN  IF n \in DOMAIN ss
        THEN [err |-> "site_slug_already_exists", sites |-> ss]
        ELSE [err |-> "none",
              sites |-> (n :> [active |-> active, vip_pin_hash |-> h]) @@ ss]

validateVipPin(ss, slug, pin) ==
    IF ~Truthy(pin) THEN FALSE
    ELSE LET site == getSite(ss, slug)
         IN  IF site = <<>> \/ site[1].vip_pin_hash = NULL THEN FALSE
             ELSE BcryptCompare(pin, site[1].vip_pin_hash)

\* the outcome of validateVipPin as its caller sees it: the promise is
\* rejected with the TypeError of slug.trim() when a truthy pin comes with a
\* slug that is not a string
validateVipPinOutcome(ss, slug, pin) ==
    IF Truthy(pin) /\ NormalizeThrows(slug) THEN "TypeError"
    ELSE IF validateVipPin(ss, slug, pin) THEN "true" ELSE "false"

\* bcrypt.hash, then UPDATE sites SET vip_pin_hash = ? WHERE slug = ?
setVipPin(ss, slug, pin) ==
    LET n == normalizeSiteSlug(slug)
    IN  IF n \in DOMAIN ss
        THEN [err |-> "none",
              sites |-> [ss EXCEPT ![n].vip_pin_hash = Hash(pin)]]
        ELSE [err |-> "site_not_found", sites |-> ss]

-----------------------------------------------------------------------------
(* SubscriptionService *)

\* a whitelist with one entry misspelt
isActiveBillingStatus_Misspelt(status) ==
    status \in {"approved", "authorized", "accredited", "recurring_charge"}

\* SubscriptionService.isActiveBillingStatus
isActiveBillingStatus(status) ==
    status \in {"approved", "authorized", "accredited", "recurring_charges"}

\* the private copy of isActiveBillingStatus in middlewares/auth.js
authIsActiveBillingStatus(status) ==
    status \in {"approved", "authorized", "accredited", "recurring_charges"}

\* the sweep's WHERE clause with the status condition left out
OverdueRow_NoStatusFilter(u, t) ==
    /\ u.billing_next # NullDate
    /\ TextLess(u.billing_next, FormatSql(t - GraceUnits))

\* the WHERE clause of the sweep's SELECT, at clock t
OverdueRow(u, t) ==
    /\ u.billing_next # NullDate
    /\ TextLess(u.billing_next, FormatSql(t - GraceUnits))
    /\ u.billing_status \notin {"cancelled", "suspended"}

Ids(us) == [i \in 1..Len(us) |-> i]

\* stmt.all(): the selected rows, in rowid order
overdueUsers(us, t) ==
    LET Test(i) == OverdueRow(us[i], t)
    IN  SelectSeq(Ids(us), Test)

\* UPDATE users SET billing_status = 'cancelled' WHERE id = ?
CancelUser(us, id) == [us EXCEPT ![id].billing_status = "cancelled"]

\* the deactivation without its try/catch: the exception escapes
DeactivateSite_Uncaught(st, slug) ==
    LET r == toggleSite(st.sites, slug, FALSE)
    IN  [st EXCEPT !.sites = r.sites, !.err = r.err,
                   !.failed = IF r.err = "none" THEN @ ELSE @ \cup {slug}]

\* try { await SiteService.toggleSite(slug, false) } catch { console.error }
DeactivateSite(st, slug) ==
    LET r == toggleSite(st.sites, slug, FALSE)
    IN  [st EXCEPT !.sites = r.sites,
                   !.failed = IF r.err = "none" THEN @ ELSE @ \cup {slug}]

\* the for loop over overdueUsers; an exception that escapes the body ends it
RECURSIVE SweepLoop(_, _, _)
SweepLoop(rows, ids, st) ==
    IF ids = <<>> \/ st.err # "none" THEN st
    ELSE LET id == Head(ids)
             slug == rows[id].site_slug
             st1 == [st EXCEPT !.users = CancelUser(st.users, id),
                               !.updated = @ \cup {id}]
             st2 == IF Truthy(slug) THEN DeactivateSite(st1, slug) ELSE st1
         IN  SweepLoop(rows, Tail(ids), st2)

SitedSlugs(rows, ids) ==
    LET Test(i) == Truthy(rows[i].site_slug)
        kept == SelectSeq(ids, Test)
    IN  [k \in 1..Len(kept) |-> rows[kept[k]].site_slug]

processGracePeriodCheck(us, ss, t) ==
    LET ids == overdueUsers(us, t)
        st == SweepLoop(us, ids,
                        [users |-> us, sites |-> ss, err |-> "none",
                         updated |-> {}, failed |-> {}])
    IN  [users |-> st.users, sites |-> st.sites, err |-> st.err,
         selected |-> {ids[k] : k \in 1..Len(ids)},
         updated |-> st.updated, failed |-> st.failed,
         processed |-> Len(ids),
         deactivatedSites |-> SitedSlugs(us, ids)]

\* how the promise awaited in the loop settles as if toggleSite waited for
\* I/O: the continuation would be a task of its own
toggleSiteSettles_AfterIO == "macrotask"

\* toggleSite awaits nothing and its statements are synchronous: the promise
\* it returns is already settled, so the continuation is a microtask
toggleSiteSettles == "microtask"

\* the remaining rows of a sweep: the id and site_slug of each selected user
SweepRows(us, ids) ==
    [k \in 1..Len(ids) |-> [id |-> ids[k], site_slug |-> us[ids[k]].site_slug]]

\* the loop body run from the current row up to the next await (suspended)
\* or the end of the loop
RECURSIVE RunToAwait(_, _)
RunToAwait(rest, st) ==
    IF rest = <<>> THEN [st |-> st, rest |-> <<>>, suspended |-> FALSE]
    ELSE LET row == Head(rest)
             st1 == [st EXCEPT !.users = CancelUser(st.users, row.id),
                               !.updated = @ \cup {row.id}]
         IN  IF Truthy(row.site_slug)
             THEN [st |-> DeactivateSite(st1, row.site_slug),
                   rest |-> Tail(rest), suspended |-> TRUE]
             ELSE RunToAwait(Tail(rest), st1)

\* one turn of an execution of processGracePeriodCheck on the event loop:
\* from its start, or from the await it was suspended at, to its next await
\* or its return
SweepTurn(us, ss, sweep) ==
    LET r == RunToAwait(sweep.rest,
                        [users |-> us, sites |-> ss, err |-> "none",
                         updated |-> sweep.updated, failed |-> sweep.failed])
    IN  [users |-> r.st.users, sites |-> r.st.sites,
         suspended |-> r.suspended,
         sweep |-> [rest |-> r.rest, updated |-> r.st.updated,
                    failed |-> r.st.failed, processed |-> sweep.processed,
                    deactivatedSites |-> sweep.deactivatedSites,
                    wake |-> toggleSiteSettles]]

\* the execution as the call starts it: the SELECT and the values the return
\* statement computes from its rows
SweepStart(us, t) ==
    LET ids == overdueUsers(us, t)
    IN  [rest |-> SweepRows(us, ids), updated |-> {}, failed |-> {},
         processed |-> Len(ids), deactivatedSites |-> SitedSlugs(us, ids),
         wake |-> toggleSiteSettles]

\* SELECT * FROM users WHERE LOWER(email) = LOWER(?) OR site_slug = ?
\* (email given), or WHERE site_slug = ? : the ids of the matching rows
MatchingUsers(us, normalizedSlug, email) ==
    IF Truthy(email)
    THEN {i \in 1..Len(us) :
            \/ ToLowerCase(us[i].email) = ToLowerCase(Trim(ToLowerCase(email)))
            \/ us[i].site_slug = normalizedSlug}
    ELSE {i \in 1..Len(us) : us[i].site_slug = normalizedSlug}

\* what getSubscriptionStatus computes from the row it found, at clock t
StatusOf(u, normalizedSlug, t) ==
    LET isActive == isActiveBillingStatus(u.billing_status)
        hasNext == u.billing_next # NullDate
    IN  [siteSlug |-> normalizedSlug,
         email |-> u.email,
         plan |-> u.plan,
         status |-> u.billing_status,
         isActive |-> isActive,
         isVip |-> (u.plan = "vip" \/ isActive),
         isOverdue |-> (hasNext /\ ParseDate(u.billing_next) < t),
         gracePeriodEnd |->
            IF hasNext THEN FormatIso(ParseDate(u.billing_next) + GraceUnits)
            ELSE NullDate,
         nextCharge |-> u.billing_next,
         amount |-> u.billing_amount,
         currency |-> u.billing_currency,
         provider |-> u.billing_provider]

\* the possible outcomes of getSubscriptionStatus(siteSlug, email): stmt.get
\* returns one matching row, and SQL leaves open which one
getSubscriptionStatus(us, siteSlug, email, t) ==
    IF NormalizeThrows(siteSlug)
    THEN {[err |-> "TypeError", uid |-> 0, res |-> <<>>]}
    ELSE LET n == normalizeSiteSlug(siteSlug)
             m == MatchingUsers(us, n, email)
         IN  IF m = {}
             THEN {[err |-> "user_not_found", uid |-> 0, res |-> <<>>]}
             ELSE {[err |-> "none", uid |-> i, res |-> StatusOf(us[i], n, t)] :
                     i \in m}

\* UPDATE users SET billing_* WHERE id = ?, then the reactivation of the site
updateBillingStatus(us, ss, userId, d) ==
    IF userId \notin 1..Len(us)
    THEN [err |-> "user_not_found", users |-> us, sites |-> ss]
    ELSE LET us1 == [us EXCEPT ![userId].billing_status = d.status,
                               ![userId].billing_next = d.nextDate,
                               ![userId].billing_amount = d.amount,
                               ![userId].billing_currency = d.currency,
                               ![userId].billing_provider = d.provider]
             slug == us1[userId].site_slug
         IN  IF isActiveBillingStatus(d.status) /\ Truthy(slug)
             THEN LET r == toggleSite(ss, slug, TRUE)
                  IN  [err |-> r.err, users |-> us1, sites |-> r.sites]
             ELSE [err |-> "none", users |-> us1, sites |-> ss]

\* an upgrade that looks the user up before it validates the plan
upgradePlan_LookupFirst(us, userId, newPlan) ==
    IF userId \notin 1..Len(us)
    THEN [err |-> "user_not_found", users |-> us]
    ELSE IF newPlan \notin {"essential", "vip"}
    THEN [err |-> "invalid_plan", users |-> us]
    ELSE [err |-> "none", users |-> [us EXCEPT ![userId].plan = newPlan]]

upgradePlan(us, userId, newPlan) ==
    IF newPlan \notin {"essential", "vip"}
    THEN [err |-> "invalid_plan", users |-> us]
    ELSE IF userId \notin 1..Len(us)
    THEN [err |-> "user_not_found", users |-> us]
    ELSE [err |-> "none", users |-> [us EXCEPT ![userId].plan = newPlan]]

-----------------------------------------------------------------------------
(* AuthService *)

\* INSERT INTO users; email is UNIQUE COLLATE NOCASE
createUser(us, email, siteSlug, plan) ==
    LET e == Trim(ToLowerCase(email))
    IN  IF \E i \in 1..Len(us) : ToLowerCase(us[i].email) = ToLowerCase(e)
        THEN [err |-> "email_already_exists", users |-> us]
        ELSE [err |-> "none",
              users |-> Append(us,
                 [role |-> "client", email |-> e,
                  site_slug |-> IF Truthy(siteSlug) THEN siteSlug ELSE NULL,
                  plan |-> plan, billing_status |-> "pending",
                  billing_next |-> NullDate, billing_amount |-> 0,
                  billing_currency |-> "BRL",
                  billing_provider |-> "mercadopago"])]

-----------------------------------------------------------------------------
(* SettingsService *)

\* A settings object has the top-level keys security, sections and colors,
\* each absent (<<>>) or present (<<value>>); security has the key vip_pin,
\* absent or present, and sections the keys defs and data.
\* JSON.stringify followed by JSON.parse gives such an object back as it is.

Absent == <<>>
Present(v) == <<v>>

\* the structure getSettings returns when the site has no snapshot
DefaultSettings ==
    [security |-> Absent,
     sections |-> Present([defs |-> <<>>, data |-> "{}"]),
     colors |-> Absent]

\* the settings row seedDatabase inserts for the example site
SeedSettings ==
    [security |-> Absent,
     sections |-> Present([defs |-> <<"hero", "about", "services">>,
                           data |-> "seed"]),
     colors |-> Present("#d4af37")]

\* the rows SELECT ... WHERE site_slug = ? ORDER BY created_at DESC LIMIT 1
\* may return: created_at has no finer resolution than the clock, and SQL
\* leaves the order of rows with equal created_at open
LatestSnapshots(kv, n) ==
    {i \in 1..Len(kv) :
        /\ kv[i].site_slug = n
        /\ \A j \in 1..Len(kv) :
              kv[j].site_slug = n => kv[j].created_at <= kv[i].created_at}

\* if (settings.security) delete settings.security.vip_pin
StripPinOnRead(settings) ==
    IF settings.security # Absent
    THEN [settings EXCEPT !.security = Present([vip_pin |-> Absent])]
    ELSE settings

\* the possible results of getSettings(siteSlug)
getSettings(kv, siteSlug) ==
    LET n == normalizeSiteSlug(siteSlug)
        rows == LatestSnapshots(kv, n)
    IN  IF rows = {} THEN {DefaultSettings}
        ELSE {StripPinOnRead(kv[i].settings_json) : i \in rows}

\* a redaction that removes the key whatever its value
StripPinOnWrite_Always(settings) ==
    IF settings.security # Absent
    THEN [settings EXCEPT !.security = Present([vip_pin |-> Absent])]
    ELSE settings

\* if (cleanSettings.security && cleanSettings.security.vip_pin)
\*   delete cleanSettings.security.vip_pin
StripPinOnWrite(settings) ==
    IF /\ settings.security # Absent
       /\ settings.security[1].vip_pin # Absent
       /\ Truthy(settings.security[1].vip_pin[1])
    THEN [settings EXCEPT !.security = Present([vip_pin |-> Absent])]
    ELSE settings

saveSettings(kv, ss, t, siteSlug, settings, pin, requirePin) ==
    LET n == normalizeSiteSlug(siteSlug)
    IN  IF requirePin /\ ~validateVipPin(ss, n, pin)
        THEN [err |-> "invalid_pin", kv |-> kv]
        ELSE [err |-> "none",
              kv |-> Append(kv, [site_slug |-> n,
                                 settings_json |-> StripPinOnWrite(settings),
                                 created_at |-> t])]

\* the defs of a request body: absent, a JSON array, or another truthy value
NoDefs == [kind |-> "absent", items |-> <<>>]
ArrayDefs(items) == [kind |-> "array", items |-> items]
StringDefs == [kind |-> "string", items |-> <<>>]

\* an upsert that never validates the PIN
upsertSectionDefs_NoPinCheck(kv, ss, t, siteSlug, defs, pin, requirePin) ==
    LET n == normalizeSiteSlug(siteSlug)
    IN  {saveSettings(kv, ss, t, n,
            [cur EXCEPT !.sections =
                Present([defs |-> IF defs.kind = "array" THEN defs.items
                                  ELSE <<>>,
                         data |-> IF cur.sections # Absent
                                  THEN cur.sections[1].data ELSE "{}"])],
            NULL, FALSE) : cur \in getSettings(kv, n)}

\* the possible outcomes of upsertSectionDefs: one for each result the
\* getSettings call inside it may have
upsertSectionDefs(kv, ss, t, siteSlug, defs, pin, requirePin) ==
    LET n == normalizeSiteSlug(siteSlug)
    IN  IF requirePin /\ ~validateVipPin(ss, n, pin)
        THEN {[err |-> "invalid_pin", kv |-> kv]}
        ELSE {saveSettings(kv, ss, t, n,
                 [cur EXCEPT !.sections =
                     Present([defs |-> IF defs.kind = "array" THEN defs.items
                                       ELSE <<>>,
                              data |-> IF cur.sections # Absent
                                       THEN cur.sections[1].data ELSE "{}"])],
                 NULL, FALSE) : cur \in getSettings(kv, n)}

-----------------------------------------------------------------------------
(* Numbers of a request body: a JSON number in units of 1 / RatingScale *)

Stars(n) == n * RatingScale

IsInteger(x) == x % RatingScale = 0

-----------------------------------------------------------------------------
(* FeedbackService *)

\* the two approved feedbacks seedDatabase inserts for the example site
SeedFeedbacks ==
    << [site_slug |-> ExampleSiteSlug, name |-> <<"J">>, email |-> <<"j">>,
        phone |-> NULL, rating |-> Stars(5), comment |-> <<"k">>,
        approved |-> TRUE, created_at |-> StartTime],
       [site_slug |-> ExampleSiteSlug, name |-> <<"M">>, email |-> <<"m">>,
        phone |-> NULL, rating |-> Stars(4), comment |-> <<"k">>,
        approved |-> TRUE, created_at |-> StartTime] >>

\* x?.trim() || null
TrimOrNull(x) ==
    IF ~IsString(x) \/ Trim(x) = <<>> THEN NULL ELSE Trim(x)

createFeedback(fb, t, siteSlug, name, email, phone, rating, comment) ==
    IF rating = 0 \/ ~Truthy(comment)
    THEN [err |-> "rating_and_comment_required", feedbacks |-> fb]
    ELSE IF rating < Stars(1) \/ rating > Stars(5)
    THEN [err |-> "rating_must_be_between_1_and_5", feedbacks |-> fb]
    ELSE [err |-> "none",
          feedbacks |-> Append(fb,
              [site_slug |-> normalizeSiteSlug(siteSlug),
               name |-> TrimOrNull(name),
               email |-> IF IsString(email) THEN TrimOrNull(ToLowerCase(email))
                         ELSE NULL,
               phone |-> TrimOrNull(phone),
               rating |-> rating,
               comment |-> Trim(comment),
               approved |-> FALSE,
               created_at |-> t])]

\* a WHERE clause that leaves out AND approved = 1
FeedbackWhere_NoApprovedFilter(fb, n, onlyApproved) ==
    {i \in 1..Len(fb) : fb[i].site_slug = n}

\* WHERE site_slug = ? [AND approved = 1]
FeedbackWhere(fb, n, onlyApproved) ==
    {i \in 1..Len(fb) : fb[i].site_slug = n /\ (onlyApproved => fb[i].approved)}

\* the orders ORDER BY created_at DESC may give the selected rows: rows with
\* equal created_at come in an order SQL leaves open
FeedbackOrders(fb, ids) ==
    {o \in [1..Cardinality(ids) -> ids] :
        /\ \A a, b \in DOMAIN o : a # b => o[a] # o[b]
        /\ \A a, b \in DOMAIN o :
              a < b => fb[o[a]].created_at >= fb[o[b]].created_at}

\* the columns of selectFields
FeedbackRow(fb, i, includePrivateInfo) ==
    IF includePrivateInfo
    THEN [id |-> i, name |-> fb[i].name, rating |-> fb[i].rating,
          comment |-> fb[i].comment, approved |-> fb[i].approved,
          created_at |-> fb[i].created_at,
          email |-> fb[i].email, phone |-> fb[i].phone]
    ELSE [id |-> i, name |-> fb[i].name, rating |-> fb[i].rating,
          comment |-> fb[i].comment, approved |-> fb[i].approved,
          created_at |-> fb[i].created_at]

Min(a, b) == IF a < b THEN a ELSE b

\* LIMIT pageSize OFFSET offset
LimitOffset(o, pageSize, offset) ==
    SubSeq(o, offset + 1, Min(offset + pageSize, Len(o)))

\* the possible results of getFeedbacks
getFeedbacks(fb, siteSlug, page, pageSize, onlyApproved, includePrivateInfo) ==
    LET n == normalizeSiteSlug(siteSlug)
        offset == (page - 1) * pageSize
        ids == FeedbackWhere(fb, n, onlyApproved)
        total == Cardinality(ids)
    IN  {[feedbacks |->
             [k \in DOMAIN LimitOffset(o, pageSize, offset) |->
                 FeedbackRow(fb, LimitOffset(o, pageSize, offset)[k],
                             includePrivateInfo)],
          pagination |-> [page |-> page, pageSize |-> pageSize,
                          total |-> total,
                          totalPages |-> (total + pageSize - 1) \div pageSize]]
         : o \in FeedbackOrders(fb, ids)}

\* UPDATE feedbacks SET approved = ? WHERE id = ?
approveFeedback(fb, id, approved) ==
    IF id \notin 1..Len(fb)
    THEN [err |-> "feedback_not_found", feedbacks |-> fb]
    ELSE [err |-> "none", feedbacks |-> [fb EXCEPT ![id].approved = approved]]

-----------------------------------------------------------------------------
(* SqliteStorage: the feedbacks table with approved and is_public *)

\* insert(feedbacks).values(data): both flags take their default, false
storageCreateFeedback(fb, siteSlug) ==
    Append(fb, [site_slug |-> siteSlug, approved |-> FALSE,
                isPublic |-> FALSE])

\* update(feedbacks).set({ approved, isPublic }).where(eq(id)): the rows that
\* match are written, and the call returns nothing
updateFeedbackApproval(fb, id, approved, isPublic) ==
    [i \in 1..Len(fb) |->
        IF i = id THEN [fb[i] EXCEPT !.approved = approved,
                                     !.isPublic = isPublic]
        ELSE fb[i]]

-----------------------------------------------------------------------------
(* LeadService, TrafficService *)

createLead(ld, t, siteSlug, name, email) ==
    IF ~Truthy(name) \/ ~Truthy(email)
    THEN [err |-> "name_and_email_required", leads |-> ld]
    ELSE [err |-> "none",
          leads |-> Append(ld, [site_slug |-> normalizeSiteSlug(siteSlug),
                                name |-> Trim(name),
                                email |-> Trim(ToLowerCase(email)),
                                created_at |-> t])]

\* the possible results of getLeads
getLeads(ld, siteSlug, page, pageSize) ==
    LET n == normalizeSiteSlug(siteSlug)
        offset == (page - 1) * pageSize
        ids == {i \in 1..Len(ld) : ld[i].site_slug = n}
    IN  {[leads |-> [k \in DOMAIN LimitOffset(o, pageSize, offset) |->
                        [id |-> LimitOffset(o, pageSize, offset)[k],
                         name |-> ld[LimitOffset(o, pageSize, offset)[k]].name,
                         email |-> ld[LimitOffset(o, pageSize, offset)[k]].email]],
          total |-> Cardinality(ids)]
         : o \in FeedbackOrders(ld, ids)}

\* the traffic_hits rows seedDatabase inserts, all for the example site
SEED_HITS == 50
SeedTrafficHits == [n \in {ExampleSiteSlug} |-> SEED_HITS]

\* summary.totalHits of getDailyStats
getDailyStats(hits, siteSlug) ==
    LET n == normalizeSiteSlug(siteSlug)
    IN  [totalHits |-> IF n \in DOMAIN hits THEN hits[n] ELSE 0]

getSiteStatus(ss, slug) ==
    LET n == normalizeSiteSlug(slug)
    IN  IF n \in DOMAIN ss
        THEN [err |-> "none", siteSlug |-> n, active |-> ss[n].active]
        ELSE [err |-> "site_not_found", siteSlug |-> n, active |-> FALSE]

-----------------------------------------------------------------------------
(* AssetService *)

\* MEDIA_ALIASES: the media key an alias stands for
resolveMediaKey(key) ==
    CASE key \in {"hero", "banner", "principal"} -> "media_1"
      [] key \in {"destaque_1", "gallery_1"} -> "media_2"
      [] key \in {"destaque_2", "gallery_2"} -> "media_3"
      [] key = "gallery_3" -> "media_4"
      [] key = "gallery_4" -> "media_5"
      [] key = "gallery_5" -> "media_6"
      [] OTHER -> key

\* DELETE FROM assets WHERE site_slug = ? AND key = ?, then INSERT
createAsset(as, t, siteSlug, key) ==
    LET n == normalizeSiteSlug(siteSlug)
    IN  {a \in as : ~(a.site_slug = n /\ a.key = key)}
           \cup {[site_slug |-> n, key |-> key, created_at |-> t]}

deleteAsset(as, siteSlug, key) ==
    LET n == normalizeSiteSlug(siteSlug)
    IN  IF \E a \in as : a.site_slug = n /\ a.key = key
        THEN [err |-> "none",
              assets |-> {a \in as : ~(a.site_slug = n /\ a.key = key)}]
        ELSE [err |-> "asset_not_found", assets |-> as]

-----------------------------------------------------------------------------
(* Authentication *)

\* jwt.sign of generateToken: the payload frozen into the token
generateToken(us, id) ==
    [id |-> id, email |-> us[id].email, role |-> us[id].role,
     siteSlug |-> us[id].site_slug, plan |-> us[id].plan]

\* an Authorization header: absent, a bearer token that does not verify,
\* or a bearer token signed by this server
NoAuth == [kind |-> "none"]
BadAuth == [kind |-> "invalid"]
Bearer(payload) == [kind |-> "bearer", user |-> payload]

AuthHeaders(toks) == {NoAuth, BadAuth} \cup {Bearer(p) : p \in toks}

\* the verifyToken middleware
verifyToken(auth) ==
    CASE auth.kind = "none" -> [status |-> 401, error |-> "token_required"]
      [] auth.kind = "invalid" -> [status |-> 401, error |-> "invalid_token"]
      [] OTHER -> [status |-> 200, error |-> "none"]

\* AuthService.login: the ids of the users the e-mail names
LoginUser(us, email) ==
    {i \in 1..Len(us) : ToLowerCase(us[i].email) = ToLowerCase(Trim(ToLowerCase(email)))}

\* the decoded role and plan of the feedback routes, which verify the
\* token themselves: a missing or invalid token leaves the request public
adminCaller(auth) == auth.kind = "bearer" /\ auth.user.role = "admin"
vipCaller(auth) == auth.kind = "bearer" /\ auth.user.plan = "vip"

\* an access level that does not look at the plan
feedbackReadElevated_AnyPlan(auth, ss, site, pin) ==
    \/ adminCaller(auth)
    \/ auth.kind = "bearer" /\ Truthy(pin) /\ validateVipPin(ss, site, pin)

\* GET /api/feedbacks: "Determine access level"
feedbackReadElevated(auth, ss, site, pin) ==
    \/ adminCaller(auth)
    \/ vipCaller(auth) /\ Truthy(pin) /\ validateVipPin(ss, site, pin)

\* a permission check that does not look at the plan
approveAuthorized_AnyPlan(auth, ss, site, pin) ==
    \/ adminCaller(auth)
    \/ auth.kind = "bearer" /\ Truthy(pin) /\ validateVipPin(ss, site, pin)

\* POST /api/feedbacks/approve: "Check authentication and permissions"
approveAuthorized(auth, ss, site, pin) ==
    \/ adminCaller(auth)
    \/ vipCaller(auth) /\ Truthy(pin) /\ validateVipPin(ss, site, pin)

\* a decision that lets every authenticated caller through to saveSettings
settingsWriteDecision_NoPlanCheck(auth, site, settings) ==
    LET v == verifyToken(auth)
    IN  IF v.status # 200 THEN v
        ELSE IF ~Truthy(site) \/ settings = Absent
        THEN [status |-> 400, error |-> "site_and_settings_required"]
        ELSE [status |-> 200, error |-> "none",
              requirePin |-> auth.user.role # "admin"]

\* POST /api/settings up to the call of saveSettings
settingsWriteDecision(auth, site, settings) ==
    LET v == verifyToken(auth)
    IN  IF v.status # 200 THEN v
        ELSE IF ~Truthy(site) \/ settings = Absent
        THEN [status |-> 400, error |-> "site_and_settings_required"]
        ELSE LET isAdmin == auth.user.role = "admin"
                 isVip == auth.user.plan = "vip"
             IN  IF ~isAdmin /\ ~isVip
                 THEN [status |-> 403, error |-> "vip_or_admin_required"]
                 ELSE [status |-> 200, error |-> "none",
                       requirePin |-> ~isAdmin /\ isVip]

\* the requireVipOrAdmin middleware; req.user is the decoded token, and
\* req.user.billing_status is undefined when the token has no such field
requireVipOrAdmin(user, us) ==
    LET isAdmin == user.role = "admin"
        isVip == \/ user.plan = "vip"
                 \/ /\ "billing_status" \in DOMAIN user
                    /\ authIsActiveBillingStatus(user.billing_status)
    IN  IF ~isAdmin /\ ~isVip
        THEN [status |-> 403, error |-> "vip_or_admin_required"]
        ELSE [status |-> 200, error |-> "none"]

\* req.user.role !== 'admin' && req.user.siteSlug !== site.toUpperCase()
canAccessSite(user, site) ==
    \/ user.role = "admin"
    \/ user.siteSlug = ToUpperCase(site)

\* a JSON value of the request body is a boolean
JsonBooleans == {"true", "false"}

-----------------------------------------------------------------------------
(* Inputs *)

SlugInputs == {<<" ", "s">>, <<"d">>}
NewSiteSlugs == {<<" ", "d">>, <<"s">>}
UserSlugInputs == {<<"d">>, NULL}
NewEmails == {<<"N">>, <<"C", " ">>}
UserIdInputs == 2..MaxUsers
BillingUserIds == {2, 3}

\* the (siteSlug, email) pairs asked of getSubscriptionStatus; the routes
\* /api/client-plan and /api/client-billing pass null for the slug, and
\* /api/subscription/status passes undefined for an absent query parameter
StatusQueries ==
    { <<<<"s", " ">>, NULL>>, <<<<"d">>, NULL>>, <<<<"x">>, <<"C", " ">>>>,
      <<<<"x">>, <<"z">>>>, <<NULL, <<"C">>>>, <<UNDEFINED, <<"n">>>> }

\* the billing data an administrator may post at clock t
BillingInputs(t) ==
    { [status |-> "approved", nextDate |-> FormatIso(t - GraceUnits - 1),
       amount |-> 97, currency |-> "BRL", provider |-> "mercadopago"],
      [status |-> "pending", nextDate |-> FormatSql(t - GraceUnits - 1),
       amount |-> 97, currency |-> "BRL", provider |-> "mercadopago"],
      [status |-> "suspended", nextDate |-> FormatSql(t - GraceUnits - 1),
       amount |-> 97, currency |-> "BRL", provider |-> "mercadopago"],
      [status |-> "recurring_charges", nextDate |-> FormatSql(t - GraceUnits),
       amount |-> 197, currency |-> "USD", provider |-> "stripe"] }

-----------------------------------------------------------------------------
(* The state after construction *)

Init ==
    /\ now = StartTime
    /\ users = SeedUsers
    /\ sites = SeedSites
    /\ settings_kv = << [site_slug |-> ExampleSiteSlug,
                          settings_json |-> SeedSettings,
                          created_at |-> StartTime] >>
    /\ feedbacks = SeedFeedbacks
    /\ tokens = {}
    /\ assets = {}
    /\ leads = <<>>
    /\ running = <<>>
    /\ storageFeedbacks = <<>>
    /\ last = [op |-> "init"]

-----------------------------------------------------------------------------
(* Operations of the billing subsystem *)

Tick ==
    /\ now < StartTime + MaxTicks
    /\ now' = now + 1
    /\ last' = [op |-> "tick"]
    /\ UNCHANGED <<storageFeedbacks, assets, leads, running, users, sites, settings_kv, feedbacks, tokens>>

CreateUser(email, siteSlug, plan) ==
    /\ Len(users) < MaxUsers
    /\ LET r == createUser(users, email, siteSlug, plan)
       IN  /\ users' = r.users
           /\ last' = [op |-> "createUser", email |-> email, err |-> r.err]
    /\ UNCHANGED <<storageFeedbacks, assets, leads, running, now, sites, settings_kv, feedbacks, tokens>>

CreateSite(slug, active, vipPin) ==
    /\ Cardinality(DOMAIN sites) < MaxSites
    /\ LET r == createSite(sites, slug, active, vipPin)
       IN  /\ sites' = r.sites
           /\ last' = [op |-> "createSite", slug |-> slug, err |-> r.err]
    /\ UNCHANGED <<storageFeedbacks, assets, leads, running, now, users, settings_kv, feedbacks, tokens>>

ToggleSite(slug, active) ==
    /\ LET r == toggleSite(sites, slug, active)
       IN  /\ sites' = r.sites
           /\ last' = [op |-> "toggleSite", slug |-> slug, active |-> active,
                       err |-> r.err]
    /\ UNCHANGED <<storageFeedbacks, assets, leads, running, now, users, settings_kv, feedbacks, tokens>>

UpdateBillingStatus(userId, d) ==
    /\ LET r == updateBillingStatus(users, sites, userId, d)
       IN  /\ users' = r.users
           /\ sites' = r.sites
           /\ last' = [op |-> "updateBillingStatus", userId |-> userId,
                       data |-> d, err |-> r.err,
                       reactivated |-> \E n \in DOMAIN sites :
                           ~sites[n].active /\ r.sites[n].active]
    /\ UNCHANGED <<storageFeedbacks, assets, leads, running, now, settings_kv, feedbacks, tokens>>

ProcessGracePeriodCheck ==
    /\ LET r == processGracePeriodCheck(users, sites, now)
       IN  /\ users' = r.users
           /\ sites' = r.sites
           /\ last' = [op |-> "processGracePeriodCheck", err |-> r.err,
                       selected |-> r.selected, updated |-> r.updated,
                       failed |-> r.failed, processed |-> r.processed,
                       deactivatedSites |-> r.deactivatedSites,
                       prev |-> IF last.op = "processGracePeriodCheck"
                                THEN last.updated ELSE {}]
    /\ UNCHANGED <<storageFeedbacks, assets, leads, running, now, settings_kv, feedbacks, tokens>>

GetSubscriptionStatus(siteSlug, email) ==
    /\ \E r \in getSubscriptionStatus(users, siteSlug, email, now) :
          last' = [op |-> "getSubscriptionStatus", siteSlug |-> siteSlug,
                   email |-> email, err |-> r.err, uid |-> r.uid,
                   res |-> r.res]
    /\ UNCHANGED <<storageFeedbacks, assets, leads, running, now, users, sites, settings_kv, feedbacks, tokens>>

\* POST /api/auth/login
Login(email, passwordOk) ==
    /\ LET ids == LoginUser(users, email)
       IN  IF ids = {} \/ ~passwordOk
           THEN /\ tokens' = tokens
                /\ last' = [op |-> "login", email |-> email,
                            err |-> "invalid_credentials"]
           ELSE \E i \in ids :
                /\ tokens' = tokens \cup {generateToken(users, i)}
                /\ last' = [op |-> "login", email |-> email, err |-> "none"]
    /\ UNCHANGED <<storageFeedbacks, assets, leads, running, now, users, sites, settings_kv, feedbacks>>

\* POST /api/subscription/upgrade-plan
UpgradePlan(auth, plan) ==
    /\ LET v == verifyToken(auth)
       IN  IF v.status # 200
           THEN /\ users' = users
                /\ last' = [op |-> "upgradePlan", auth |-> auth, plan |-> plan,
                            status |-> v.status, error |-> v.error]
           ELSE IF plan = ""
           THEN /\ users' = users
                /\ last' = [op |-> "upgradePlan", auth |-> auth, plan |-> plan,
                            status |-> 400, error |-> "plan_required"]
           ELSE LET r == upgradePlan(users, auth.user.id, plan)
                IN  /\ users' = r.users
                    /\ last' = [op |-> "upgradePlan", auth |-> auth,
                                plan |-> plan,
                                status |-> CASE r.err = "none" -> 200
                                             [] r.err = "invalid_plan" -> 400
                                             [] OTHER -> 404,
                                error |-> r.err]
    /\ UNCHANGED <<storageFeedbacks, assets, leads, running, now, sites, settings_kv, feedbacks, tokens>>

\* GET /api/settings
SettingsGet(site) ==
    /\ IF ~Truthy(site)
       THEN last' = [op |-> "getSettings", site |-> site, status |-> 400,
                     error |-> "site_required", settings |-> DefaultSettings]
       ELSE \E r \in getSettings(settings_kv, site) :
               last' = [op |-> "getSettings", site |-> site, status |-> 200,
                        error |-> "none", settings |-> r]
    /\ UNCHANGED <<storageFeedbacks, assets, leads, running, now, users, sites, settings_kv, feedbacks, tokens>>

\* POST /api/settings
SettingsPost(auth, site, settings, pin) ==
    /\ Len(settings_kv) < MaxSnapshots
    /\ LET d == settingsWriteDecision(auth, site, settings)
           req == [op |-> "saveSettings", auth |-> auth, site |-> site,
                   settings |-> settings, pin |-> pin]
       IN  IF d.status # 200
           THEN /\ settings_kv' = settings_kv
                /\ last' = [status |-> d.status, error |-> d.error] @@ req
           ELSE LET r == saveSettings(settings_kv, sites, now, site,
                                      settings[1], pin, d.requirePin)
                IN  /\ settings_kv' = r.kv
                    /\ last' = [status |-> IF r.err = "none" THEN 200 ELSE 403,
                                error |-> r.err] @@ req
    /\ UNCHANGED <<storageFeedbacks, assets, leads, running, now, users, sites, feedbacks, tokens>>

\* POST /api/sections/upsert-defs
SectionsUpsert(auth, site, defs, pin) ==
    /\ Len(settings_kv) < MaxSnapshots
    /\ LET v == verifyToken(auth)
           req == [op |-> "upsertSectionDefs", auth |-> auth, site |-> site,
                   defs |-> defs, pin |-> pin]
       IN  IF v.status # 200
           THEN /\ settings_kv' = settings_kv
                /\ last' = [status |-> v.status, error |-> v.error] @@ req
           ELSE IF ~Truthy(site) \/ defs.kind = "absent"
           THEN /\ settings_kv' = settings_kv
                /\ last' = [status |-> 400,
                            error |-> "site_and_defs_required"] @@ req
           ELSE \E r \in upsertSectionDefs(settings_kv, sites, now, site, defs,
                                           pin, auth.user.role # "admin") :
                    /\ settings_kv' = r.kv
                    /\ last' = [status |-> IF r.err = "none" THEN 200 ELSE 403,
                                error |-> r.err] @@ req
    /\ UNCHANGED <<storageFeedbacks, assets, leads, running, now, users, sites, feedbacks, tokens>>

\* POST /api/feedbacks
FeedbackCreate(site, name, email, phone, rating, comment) ==
    /\ Len(feedbacks) < MaxFeedbacks
    /\ LET req == [op |-> "createFeedback", site |-> site, rating |-> rating,
                   comment |-> comment]
       IN  IF ~Truthy(site) \/ rating = 0 \/ ~Truthy(comment)
           THEN /\ feedbacks' = feedbacks
                /\ last' = [status |-> 400,
                            error |-> "site_rating_and_comment_required"] @@ req
           ELSE LET r == createFeedback(feedbacks, now, site, name, email,
                                        phone, rating, comment)
                IN  /\ feedbacks' = r.feedbacks
                    /\ last' = [status |-> IF r.err = "none" THEN 200 ELSE 400,
                                error |-> r.err] @@ req
    /\ UNCHANGED <<storageFeedbacks, assets, leads, running, now, users, sites, settings_kv, tokens>>

\* GET /api/feedbacks
FeedbackRead(auth, site, page, pageSize, pin) ==
    /\ LET req == [op |-> "getFeedbacks", auth |-> auth, site |-> site,
                   page |-> page, pageSize |-> pageSize, pin |-> pin]
       IN  IF ~Truthy(site)
           THEN last' = [status |-> 400, error |-> "site_required",
                         feedbacks |-> <<>>, total |-> 0] @@ req
           ELSE LET elevated == feedbackReadElevated(auth, sites, site, pin)
                IN  \E r \in getFeedbacks(feedbacks, site, page, pageSize,
                                          ~elevated, elevated) :
                       last' = [status |-> 200, error |-> "none",
                                feedbacks |-> r.feedbacks,
                                total |-> r.pagination.total] @@ req
    /\ UNCHANGED <<storageFeedbacks, assets, leads, running, now, users, sites, settings_kv, feedbacks, tokens>>

\* POST /api/feedbacks/approve
FeedbackApprove(auth, site, id, approved, pin) ==
    /\ LET req == [op |-> "approveFeedback", auth |-> auth, site |-> site,
                   id |-> id, approved |-> approved, pin |-> pin]
       IN  IF ~Truthy(site) \/ id = 0 \/ approved \notin JsonBooleans
           THEN /\ feedbacks' = feedbacks
                /\ last' = [status |-> 400,
                            error |-> "site_id_and_approved_required"] @@ req
           ELSE IF ~approveAuthorized(auth, sites, site, pin)
           THEN /\ feedbacks' = feedbacks
                /\ last' = [status |-> 403,
                            error |-> "vip_pin_or_admin_required"] @@ req
           ELSE LET r == approveFeedback(feedbacks, id, approved = "true")
                IN  /\ feedbacks' = r.feedbacks
                    /\ last' = [status |-> IF r.err = "none" THEN 200 ELSE 404,
                                error |-> r.err] @@ req
    /\ UNCHANGED <<storageFeedbacks, assets, leads, running, now, users, sites, settings_kv, tokens>>

\* PUT /api/assets
AssetPut(auth, site, key, file) ==
    /\ LET v == verifyToken(auth)
           req == [op |-> "putAsset", auth |-> auth, site |-> site,
                   key |-> key]
       IN  IF v.status # 200
           THEN /\ assets' = assets
                /\ last' = [status |-> v.status, error |-> v.error] @@ req
           ELSE LET g == requireVipOrAdmin(auth.user, users)
                IN  IF g.status # 200
                    THEN /\ assets' = assets
                         /\ last' = [status |-> g.status,
                                     error |-> g.error] @@ req
                    ELSE IF ~Truthy(site) \/ key = "" \/ file = Absent
                    THEN /\ assets' = assets
                         /\ last' = [status |-> 400,
                                     error |-> "site_key_and_file_required"]
                                    @@ req
                    ELSE /\ assets' = createAsset(assets, now, site,
                                                  resolveMediaKey(key))
                         /\ last' = [status |-> 200, error |-> "none"] @@ req
    /\ UNCHANGED <<storageFeedbacks, now, users, sites, settings_kv, feedbacks, tokens, leads,
                   running>>

\* DELETE /api/assets/:key
AssetDelete(auth, site, key) ==
    /\ LET v == verifyToken(auth)
           req == [op |-> "deleteAsset", auth |-> auth, site |-> site,
                   key |-> key]
       IN  IF v.status # 200
           THEN /\ assets' = assets
                /\ last' = [status |-> v.status, error |-> v.error] @@ req
           ELSE LET g == requireVipOrAdmin(auth.user, users)
                IN  IF g.status # 200
                    THEN /\ assets' = assets
                         /\ last' = [status |-> g.status,
                                     error |-> g.error] @@ req
                    ELSE IF ~Truthy(site)
                    THEN /\ assets' = assets
                         /\ last' = [status |-> 400,
                                     error |-> "site_required"] @@ req
                    ELSE LET r == deleteAsset(assets, site, key)
                         IN  /\ assets' = r.assets
                             /\ last' = [status |-> IF r.err = "none"
                                                    THEN 200 ELSE 404,
                                         error |-> r.err] @@ req
    /\ UNCHANGED <<storageFeedbacks, now, users, sites, settings_kv, feedbacks, tokens, leads,
                   running>>

\* POST /api/leads
LeadCreate(site, name, email) ==
    /\ Len(leads) < MaxLeads
    /\ LET req == [op |-> "createLead", site |-> site]
       IN  IF ~Truthy(site) \/ ~Truthy(name) \/ ~Truthy(email)
           THEN /\ leads' = leads
                /\ last' = [status |-> 400,
                            error |-> "site_name_and_email_required"] @@ req
           ELSE LET r == createLead(leads, now, site, name, email)
                IN  /\ leads' = r.leads
                    /\ last' = [status |-> IF r.err = "none" THEN 200 ELSE 400,
                                error |-> r.err] @@ req
    /\ UNCHANGED <<storageFeedbacks, now, users, sites, settings_kv, feedbacks, tokens, assets,
                   running>>

\* GET /api/leads
LeadsRead(auth, site, page, pageSize) ==
    /\ LET v == verifyToken(auth)
           req == [op |-> "getLeads", auth |-> auth, site |-> site]
       IN  IF v.status # 200
           THEN last' = [status |-> v.status, error |-> v.error,
                         data |-> <<>>] @@ req
           ELSE IF ~Truthy(site)
           THEN last' = [status |-> 400, error |-> "site_required",
                         data |-> <<>>] @@ req
           ELSE IF ~canAccessSite(auth.user, site)
           THEN last' = [status |-> 403, error |-> "access_denied",
                         data |-> <<>>] @@ req
           ELSE \E r \in getLeads(leads, site, page, pageSize) :
                   last' = [status |-> 200, error |-> "none",
                            data |-> <<r>>] @@ req
    /\ UNCHANGED <<storageFeedbacks, now, users, sites, settings_kv, feedbacks, tokens, assets,
                   leads, running>>

\* GET /api/traffic/daily
TrafficRead(auth, site) ==
    /\ LET v == verifyToken(auth)
           req == [op |-> "getDailyStats", auth |-> auth, site |-> site]
       IN  IF v.status # 200
           THEN last' = [status |-> v.status, error |-> v.error,
                         data |-> <<>>] @@ req
           ELSE IF ~Truthy(site)
           THEN last' = [status |-> 400, error |-> "site_required",
                         data |-> <<>>] @@ req
           ELSE IF ~canAccessSite(auth.user, site)
           THEN last' = [status |-> 403, error |-> "access_denied",
                         data |-> <<>>] @@ req
           ELSE last' = [status |-> 200, error |-> "none",
                         data |-> <<getDailyStats(SeedTrafficHits, site)>>]
                        @@ req
    /\ UNCHANGED <<storageFeedbacks, now, users, sites, settings_kv, feedbacks, tokens, assets,
                   leads, running>>

\* GET /api/site-status, which reads no Authorization header
SiteStatusRead(auth, site) ==
    /\ LET req == [op |-> "getSiteStatus", auth |-> auth, site |-> site]
       IN  IF ~Truthy(site)
           THEN last' = [status |-> 400, error |-> "site_required",
                         data |-> <<>>] @@ req
           ELSE LET r == getSiteStatus(sites, site)
                IN  IF r.err # "none"
                    THEN last' = [status |-> 404, error |-> r.err,
                                  data |-> <<>>] @@ req
                    ELSE last' = [status |-> 200, error |-> "none",
                                  data |-> <<[siteSlug |-> r.siteSlug,
                                              active |-> r.active]>>] @@ req
    /\ UNCHANGED <<storageFeedbacks, now, users, sites, settings_kv, feedbacks, tokens, assets,
                   leads, running>>

\* SiteService.setVipPin, as POST /api/site/set-pin calls it for an admin
SetVipPin(slug, pin) ==
    /\ LET r == setVipPin(sites, slug, pin)
       IN  /\ sites' = r.sites
           /\ last' = [op |-> "setVipPin", slug |-> slug, pin |-> pin,
                       err |-> r.err]
    /\ UNCHANGED <<storageFeedbacks, now, users, settings_kv, feedbacks, tokens, assets, leads,
                   running>>

\* a call of SiteService.validateVipPin
ValidateVipPin(slug, pin) ==
    /\ last' = [op |-> "validateVipPin", slug |-> slug, pin |-> pin,
                result |-> validateVipPinOutcome(sites, slug, pin)]
    /\ UNCHANGED <<storageFeedbacks, now, users, sites, settings_kv, feedbacks, tokens, assets,
                   leads, running>>

\* POST /api/feedbacks of the storage router, with a body the schema accepts
StorageFeedbackCreate(siteSlug) ==
    /\ Len(storageFeedbacks) < MaxFeedbacks
    /\ storageFeedbacks' = storageCreateFeedback(storageFeedbacks, siteSlug)
    /\ last' = [op |-> "storageCreateFeedback", siteSlug |-> siteSlug,
                status |-> 200]
    /\ UNCHANGED <<now, users, sites, settings_kv, feedbacks, tokens, assets,
                   leads, running>>

\* PATCH /api/feedbacks/:id/approval; isPublic = false when the body has none
FeedbackApproval(id, approved, isPublic) ==
    /\ LET req == [op |-> "updateFeedbackApproval", id |-> id,
                   approved |-> approved, isPublic |-> isPublic]
       IN  IF approved \notin JsonBooleans
           THEN /\ storageFeedbacks' = storageFeedbacks
                /\ last' = [status |-> 400,
                            error |-> "approved_obrigatorio"] @@ req
           ELSE /\ storageFeedbacks' =
                      updateFeedbackApproval(storageFeedbacks, id,
                          approved = "true",
                          IF isPublic = Absent THEN FALSE ELSE isPublic[1])
                /\ last' = [status |-> 200, error |-> "none"] @@ req
    /\ UNCHANGED <<now, users, sites, settings_kv, feedbacks, tokens, assets,
                   leads, running>>

\* a call of SubscriptionService.upgradePlan
UpgradePlanCall(userId, newPlan) ==
    /\ LET r == upgradePlan(users, userId, newPlan)
       IN  /\ users' = r.users
           /\ last' = [op |-> "upgradePlanCall", userId |-> userId,
                       newPlan |-> newPlan, err |-> r.err]
    /\ UNCHANGED <<now, sites, settings_kv, feedbacks, tokens, assets, leads,
                   running, storageFeedbacks>>

\* a call of SettingsService.saveSettings without a PIN requirement
SaveSettings(siteSlug, settings) ==
    /\ Len(settings_kv) < MaxStoreRows
    /\ LET r == saveSettings(settings_kv, sites, now, siteSlug, settings,
                             NULL, FALSE)
       IN  /\ settings_kv' = r.kv
           /\ last' = [op |-> "saveSettingsCall", siteSlug |-> siteSlug,
                       err |-> r.err]
    /\ UNCHANGED <<storageFeedbacks, now, users, sites, feedbacks, tokens, assets, leads,
                   running>>

\* a call of SettingsService.upsertSectionDefs without a PIN requirement
UpsertSectionDefs(siteSlug, defs) ==
    /\ Len(settings_kv) < MaxStoreRows
    /\ \E r \in upsertSectionDefs(settings_kv, sites, now, siteSlug, defs,
                                  NULL, FALSE) :
          /\ settings_kv' = r.kv
          /\ last' = [op |-> "upsertSectionDefsCall", siteSlug |-> siteSlug,
                      defs |-> defs, err |-> r.err]
    /\ UNCHANGED <<storageFeedbacks, now, users, sites, feedbacks, tokens, assets, leads,
                   running>>

\* a call of SettingsService.getSettings
GetSettings(siteSlug) ==
    /\ \E r \in getSettings(settings_kv, siteSlug) :
          last' = [op |-> "getSettingsCall", siteSlug |-> siteSlug,
                   settings |-> r]
    /\ UNCHANGED <<storageFeedbacks, now, users, sites, settings_kv, feedbacks, tokens, assets,
                   leads, running>>

\* an event loop that would take its next task while microtasks are pending
LoopIdle_TasksAnytime == TRUE

\* the microtask queue is empty: the event loop may take its next task
LoopIdle == \A k \in 1..Len(running) : running[k].wake # "microtask"

RemoveAt(q, k) == [i \in 1..(Len(q) - 1) |-> IF i < k THEN q[i] ELSE q[i + 1]]

SweepResult(sweep) ==
    [op |-> "sweepReturned", updated |-> sweep.updated,
     failed |-> sweep.failed, processed |-> sweep.processed,
     deactivatedSites |-> sweep.deactivatedSites]

\* the setInterval callback: a task that calls processGracePeriodCheck
TimerFire ==
    /\ LoopIdle
    /\ Len(running) < MaxRunning
    /\ LET r == SweepTurn(users, sites, SweepStart(users, now))
       IN  /\ users' = r.users
           /\ sites' = r.sites
           /\ running' = IF r.suspended THEN Append(running, r.sweep)
                         ELSE running
           /\ last' = IF r.suspended THEN [op |-> "sweepSuspended"]
                      ELSE SweepResult(r.sweep)
    /\ UNCHANGED <<storageFeedbacks, now, settings_kv, feedbacks, tokens, assets, leads>>

\* the continuation of a suspended execution: a microtask runs before any
\* task, a task only when the microtask queue is empty
SweepResume(k) ==
    /\ k \in 1..Len(running)
    /\ running[k].wake = "microtask" \/ LoopIdle
    /\ LET r == SweepTurn(users, sites, running[k])
       IN  /\ users' = r.users
           /\ sites' = r.sites
           /\ running' = IF r.suspended
                         THEN [running EXCEPT ![k] = r.sweep]
                         ELSE RemoveAt(running, k)
           /\ last' = IF r.suspended THEN [op |-> "sweepSuspended"]
                      ELSE SweepResult(r.sweep)
    /\ UNCHANGED <<storageFeedbacks, now, settings_kv, feedbacks, tokens, assets, leads>>

NextBilling ==
    \/ Tick
    \/ \E e \in NewEmails, s \in UserSlugInputs : CreateUser(e, s, "essential")
    \/ \E s \in NewSiteSlugs : CreateSite(s, TRUE, NULL)
    \/ \E s \in SlugInputs, a \in BOOLEAN : ToggleSite(s, a)
    \/ \E id \in BillingUserIds, d \in BillingInputs(now) :
          UpdateBillingStatus(id, d)
    \/ ProcessGracePeriodCheck
    \/ \E q \in StatusQueries : GetSubscriptionStatus(q[1], q[2])

SpecBilling == Init /\ [][NextBilling]_vars

\* the sweep over up to three client accounts
SweepEmails == {<<"N">>, <<"x">>}
SweepUserSlugs == {<<"x">>, <<"d">>}

SweepBillingInputs(t) ==
    { [status |-> "pending", nextDate |-> FormatSql(t - GraceUnits - 1),
       amount |-> 97, currency |-> "BRL", provider |-> "mercadopago"],
      [status |-> "approved", nextDate |-> FormatIso(t - GraceUnits - 1),
       amount |-> 97, currency |-> "BRL", provider |-> "mercadopago"] }

NextSweep ==
    \/ \E e \in SweepEmails, s \in SweepUserSlugs : CreateUser(e, s, "essential")
    \/ \E s \in NewSiteSlugs : CreateSite(s, TRUE, NULL)
    \/ \E id \in UserIdInputs, d \in SweepBillingInputs(now) :
          UpdateBillingStatus(id, d)
    \/ ProcessGracePeriodCheck

SpecSweep == Init /\ [][NextSweep]_vars

\* a payment recorded at clock t: an active status, the next charge due
Payment(t) ==
    [status |-> "approved", nextDate |-> FormatIso(t),
     amount |-> 97, currency |-> "BRL", provider |-> "mercadopago"]

\* the event loop: the daily timer and the requests that change accounts
NextLoop ==
    \/ LoopIdle /\ \E e \in SweepEmails, s \in SweepUserSlugs :
          CreateUser(e, s, "essential")
    \/ LoopIdle /\ \E id \in UserIdInputs, d \in SweepBillingInputs(now) :
          UpdateBillingStatus(id, d)
    \/ LoopIdle /\ \E id \in UserIdInputs : UpdateBillingStatus(id, Payment(now))
    \/ TimerFire
    \/ \E k \in 1..MaxRunning : SweepResume(k)

SpecLoop == Init /\ [][NextLoop]_vars

-----------------------------------------------------------------------------
(* Settings: logins, plan changes, settings reads and writes, upserts *)

\* credentials of POST /api/auth/login: <<email, the password is right>>
Logins == { << <<"A">>, TRUE >>, << <<"c", " ">>, TRUE >>, << <<"c">>, FALSE >> }
PlanInputs == {"essential", "vip", "gold"}
WrongPin == <<"9">>

\* settings objects a caller may send
SettingsWithPin ==
    [security |-> Present([vip_pin |-> Present(ExampleSitePin)]),
     sections |-> Absent, colors |-> Present("#000")]
SettingsWithEmptyPin ==
    [security |-> Present([vip_pin |-> Present(<<>>)]),
     sections |-> Absent, colors |-> Present("#000")]
SettingsWithoutSecurity ==
    [security |-> Absent,
     sections |-> Present([defs |-> <<"hero">>, data |-> "new"]),
     colors |-> Absent]

\* request bodies of POST /api/settings: <<site, settings, pin>>
SettingsRequests ==
    { << <<" ", "s">>, Present(SettingsWithPin), ExampleSitePin >>,
      << <<" ", "s">>, Present(SettingsWithEmptyPin), ExampleSitePin >>,
      << <<"s">>, Present(SettingsWithoutSecurity), UNDEFINED >>,
      << <<"s">>, Present(SettingsWithPin), WrongPin >>,
      << <<"d">>, Present(SettingsWithoutSecurity), ExampleSitePin >>,
      << UNDEFINED, Present(SettingsWithoutSecurity), ExampleSitePin >>,
      << <<"s">>, Absent, ExampleSitePin >> }

\* request bodies of POST /api/sections/upsert-defs: <<site, defs, pin>>
UpsertRequests ==
    { << <<"s", " ">>, ArrayDefs(<<"about">>), ExampleSitePin >>,
      << <<"s">>, StringDefs, UNDEFINED >>,
      << <<"s">>, ArrayDefs(<<>>), WrongPin >>,
      << <<"s">>, NoDefs, ExampleSitePin >> }

NextSettings ==
    \/ \E c \in Logins : Login(c[1], c[2])
    \/ \E a \in AuthHeaders(tokens), p \in PlanInputs : UpgradePlan(a, p)
    \/ \E site \in SlugInputs : SettingsGet(site)
    \/ \E a \in AuthHeaders(tokens), r \in SettingsRequests :
          SettingsPost(a, r[1], r[2], r[3])
    \/ \E a \in AuthHeaders(tokens), r \in UpsertRequests :
          SectionsUpsert(a, r[1], r[2], r[3])

SpecSettings == Init /\ [][NextSettings]_vars

\* the settings store under direct calls of SettingsService
StoreSlugs == {<<"s">>, <<" ", "d">>}
StoreSettings == {SettingsWithPin, SettingsWithoutSecurity}

NextStore ==
    \/ Tick
    \/ \E s \in StoreSlugs, v \in StoreSettings : SaveSettings(s, v)
    \/ \E s \in StoreSlugs : UpsertSectionDefs(s, ArrayDefs(<<"about">>))
    \/ \E s \in StoreSlugs : GetSettings(s)

SpecStore == Init /\ [][NextStore]_vars

\* moderation through the storage router
ApprovalIds == 1..(MaxFeedbacks + 1)
ApprovedInputs == {"true", "false", "null"}
IsPublicInputs == {Absent, Present(TRUE), Present(FALSE)}

NextModeration ==
    \/ StorageFeedbackCreate(ExampleSiteSlug)
    \/ \E id \in ApprovalIds, a \in ApprovedInputs, p \in IsPublicInputs :
          FeedbackApproval(id, a, p)

SpecModeration == Init /\ [][NextModeration]_vars

\* plans: accounts, payments and direct calls of upgradePlan
PlanUserIds == 1..(MaxUsers + 1)

NextPlans ==
    \/ \E e \in NewEmails, s \in UserSlugInputs : CreateUser(e, s, "essential")
    \/ \E id \in BillingUserIds, d \in BillingInputs(now) :
          UpdateBillingStatus(id, d)
    \/ \E id \in PlanUserIds, p \in PlanInputs : UpgradePlanCall(id, p)

SpecPlans == Init /\ [][NextPlans]_vars

-----------------------------------------------------------------------------
(* Feedbacks: logins, plan changes, creation, reads and approvals *)

DEFAULT_PAGE == 1
DEFAULT_PAGE_SIZE == 20

\* request bodies of POST /api/feedbacks: <<site, email, rating, comment>>
CreateRequests ==
    { << <<" ", "d">>, <<"N", " ">>, Stars(5), <<" ", "k">> >>,
      << <<"d">>, NULL, Stars(4) + 1, <<"k">> >>,
      << <<"s">>, NULL, Stars(6), <<"k">> >>,
      << <<"s">>, NULL, 0, <<"k">> >>,
      << <<"s">>, NULL, Stars(5), <<>> >>,
      << UNDEFINED, NULL, Stars(5), <<"k">> >> }

\* queries of GET /api/feedbacks: <<site, page, pageSize, pin>>
ReadRequests ==
    { << <<"s">>, DEFAULT_PAGE, DEFAULT_PAGE_SIZE, UNDEFINED >>,
      << <<"s", " ">>, 1, 1, UNDEFINED >>,
      << <<"s">>, 2, 1, WrongPin >>,
      << <<"s">>, DEFAULT_PAGE, DEFAULT_PAGE_SIZE, ExampleSitePin >>,
      << <<"d">>, DEFAULT_PAGE, DEFAULT_PAGE_SIZE, ExampleSitePin >>,
      << UNDEFINED, DEFAULT_PAGE, DEFAULT_PAGE_SIZE, UNDEFINED >> }

\* request bodies of POST /api/feedbacks/approve: <<site, id, approved, pin>>
ApproveRequests ==
    { << <<"s">>, 1, "false", ExampleSitePin >>,
      << <<" ", "s">>, 1, "true", UNDEFINED >>,
      << <<"s">>, 3, "true", ExampleSitePin >>,
      << <<"s">>, 3, "false", WrongPin >>,
      << <<"d">>, 3, "true", ExampleSitePin >>,
      << <<"s">>, 0, "true", ExampleSitePin >>,
      << <<"s">>, 1, "1", ExampleSitePin >> }

Downgrades == {"essential"}

NextFeedback ==
    \/ \E c \in Logins : Login(c[1], c[2])
    \/ \E a \in AuthHeaders(tokens), p \in Downgrades : UpgradePlan(a, p)
    \/ \E r \in CreateRequests :
          FeedbackCreate(r[1], <<"N">>, r[2], <<"9">>, r[3], r[4])
    \/ \E a \in AuthHeaders(tokens), r \in ReadRequests :
          FeedbackRead(a, r[1], r[2], r[3], r[4])
    \/ \E a \in AuthHeaders(tokens), r \in ApproveRequests :
          FeedbackApprove(a, r[1], r[2], r[3], r[4])

SpecFeedback == Init /\ [][NextFeedback]_vars

-----------------------------------------------------------------------------
(* Assets: logins, plan changes, asset writes and deletes *)

\* requests of PUT /api/assets: <<site, key, file>>
AssetPutRequests ==
    { << <<" ", "s">>, "hero", Present("png") >>,
      << <<"s">>, "media_1", Present("jpg") >>,
      << <<"d">>, "logo", Present("png") >>,
      << <<"s">>, "logo", Absent >> }

\* requests of DELETE /api/assets/:key: <<site, key>>
AssetDeleteRequests ==
    { << <<"s", " ">>, "media_1" >>,
      << <<"s">>, "hero" >>,
      << UNDEFINED, "logo" >> }

NextAssets ==
    \/ \E c \in Logins : Login(c[1], c[2])
    \/ \E a \in AuthHeaders(tokens), p \in Downgrades : UpgradePlan(a, p)
    \/ \E a \in AuthHeaders(tokens), r \in AssetPutRequests :
          AssetPut(a, r[1], r[2], r[3])
    \/ \E a \in AuthHeaders(tokens), r \in AssetDeleteRequests :
          AssetDelete(a, r[1], r[2])

SpecAssets == Init /\ [][NextAssets]_vars

-----------------------------------------------------------------------------
(* Tenants: users of two sites reading leads, traffic and site status *)

TenantLogins == Logins \cup { << <<"n">>, TRUE >> }
TenantSlugs == {<<"s">>, <<" ", "S">>, <<"d">>, UNDEFINED}

NextTenant ==
    \/ \E c \in TenantLogins : Login(c[1], c[2])
    \/ CreateUser(<<"N">>, <<"d">>, "essential")
    \/ CreateSite(<<" ", "d">>, TRUE, NULL)
    \/ \E site \in {<<"s">>, <<"d">>} : LeadCreate(site, <<"N">>, <<"N">>)
    \/ \E a \in AuthHeaders(tokens), site \in TenantSlugs :
          LeadsRead(a, site, DEFAULT_PAGE, DEFAULT_PAGE_SIZE)
    \/ \E a \in AuthHeaders(tokens), site \in TenantSlugs : TrafficRead(a, site)
    \/ \E a \in AuthHeaders(tokens), site \in TenantSlugs :
          SiteStatusRead(a, site)

SpecTenant == Init /\ [][NextTenant]_vars

-----------------------------------------------------------------------------
(* Sites: creation, PIN changes and PIN validation *)

PinInputs == {ExampleSitePin, WrongPin, <<>>}
PinSlugs == {<<" ", "s">>, <<"d">>, <<"x">>}

NextSites ==
    \/ \E p \in {NULL, WrongPin} : CreateSite(<<" ", "d">>, TRUE, p)
    \/ \E slug \in PinSlugs, p \in PinInputs : SetVipPin(slug, p)
    \/ \E slug \in PinSlugs \cup {UNDEFINED}, p \in PinInputs \cup {NULL} :
          ValidateVipPin(slug, p)

SpecSites == Init /\ [][NextSites]_vars

-----------------------------------------------------------------------------
(* Properties of the sweep *)

\* a row whose billing date lies more than the grace period before t and
\* whose status is neither cancelled nor suspended
PastGrace(u, t) ==
    /\ u.billing_next # NullDate
    /\ ParseDate(u.billing_next) < t - GraceUnits
    /\ u.billing_status \notin {"cancelled", "suspended"}

SiteOf(u) == normalizeSiteSlug(u.site_slug)

HasSite(u, ss) == Truthy(u.site_slug) /\ SiteOf(u) \in DOMAIN ss

\* C1: a run of processGracePeriodCheck at time now cancels a user if and
\* only if the user's billingNext was set and more than 3 days before now
\* and the status was not cancelled or suspended; the existing site of each
\* such user is inactive afterwards; every other user row, every plan and
\* every site of no selected user is unchanged.
C1_SweepCancelsExactlyThePastGrace ==
    [][ last'.op = "processGracePeriodCheck" =>
          /\ Len(users') = Len(users)
          /\ DOMAIN sites' = DOMAIN sites
          /\ \A i \in 1..Len(users) :
                /\ (i \in last'.updated) <=> PastGrace(users[i], now)
                /\ i \in last'.updated =>
                      /\ users'[i] = [users[i] EXCEPT !.billing_status = "cancelled"]
                      /\ HasSite(users[i], sites) => ~sites'[SiteOf(users[i])].active
                /\ i \notin last'.updated => users'[i] = users[i]
          /\ \A n \in DOMAIN sites :
                (\A i \in last'.updated : ~(HasSite(users[i], sites) /\ SiteOf(users[i]) = n))
                   => sites'[n] = sites[n]
      ]_vars

\* C6: a second run of processGracePeriodCheck right after a first one
\* selects none of the users the first run cancelled, counts none of them
\* in processed, and changes no user and no site.
C6_SecondSweepChangesNothing ==
    [][ (last.op = "processGracePeriodCheck" /\ last'.op = "processGracePeriodCheck") =>
          /\ last'.selected \cap last.updated = {}
          /\ last'.processed = Cardinality(last'.selected)
          /\ last'.updated = {}
          /\ users' = users
          /\ sites' = sites
      ]_vars

\* a second run has just followed a first run that cancelled somebody
C6_Witness ==
    /\ last.op = "processGracePeriodCheck"
    /\ last.prev # {}
    /\ \A i \in last.prev : users[i].billing_status = "cancelled"

\* C7: when the deactivation of one selected user's site fails, the sweep
\* still cancels every selected user, still deactivates the existing sites
\* of the other selected users, and returns its result without raising.
C7_SweepSurvivesSiteFailure ==
    last.op = "processGracePeriodCheck" =>
        /\ last.err = "none"
        /\ last.processed = Cardinality(last.selected)
        /\ \A i \in last.selected :
              /\ users[i].billing_status = "cancelled"
              /\ HasSite(users[i], sites) => ~sites[SiteOf(users[i])].active

\* a sweep in which the site of one selected user did not exist and a user
\* selected after that one has an existing site
C7_Witness ==
    /\ last.op = "processGracePeriodCheck"
    /\ \E i, j \in last.selected :
          /\ i < j
          /\ users[i].site_slug \in last.failed
          /\ HasSite(users[j], sites)
          /\ ~sites[SiteOf(users[j])].active
          /\ users[j].billing_status = "cancelled"

-----------------------------------------------------------------------------
(* Properties of updateBillingStatus and getSubscriptionStatus *)

Whitelist == {"approved", "authorized", "accredited", "recurring_charges"}

\* every billing status that is stored or posted in the model, and some
\* that are not
StatusUniverse ==
    {"pending", "active", "cancelled", "suspended", "approved", "authorized",
     "accredited", "recurring_charges", "recurring_charge", "APPROVED", ""}

C10_LookupBySlugOrEmail ==
    (last.op = "getSubscriptionStatus"
       /\ (Truthy(last.siteSlug) \/ Truthy(last.email))) =>
        LET m == {i \in 1..Len(users) :
                    \/ /\ Truthy(last.siteSlug)
                       /\ users[i].site_slug = ToUpperCase(Trim(last.siteSlug))
                    \/ /\ Truthy(last.email)
                       /\ ToLowerCase(users[i].email) = ToLowerCase(Trim(last.email))}
        IN  IF m = {} THEN last.err = "user_not_found"
            ELSE last.err = "none" /\ last.uid \in m


-----------------------------------------------------------------------------
(* Access rules of settings and feedbacks *)

\* the PIN is a non-empty text, the site named exists, has a PIN set, and
\* the PIN given is the one stored for it
PinValidates(ss, site, pin) ==
    /\ IsString(pin) /\ pin # <<>>
    /\ IsString(site)
    /\ ToUpperCase(Trim(site)) \in DOMAIN ss
    /\ ss[ToUpperCase(Trim(site))].vip_pin_hash = Hash(pin)

Authenticated(auth) == auth.kind = "bearer"
IsAdminCaller(auth) == Authenticated(auth) /\ auth.user.role = "admin"
IsVipCaller(auth) == Authenticated(auth) /\ auth.user.plan = "vip"

\* C2: a settings write (POST /api/settings) naming a site and carrying a
\* settings object is decided as follows, for every caller and PIN: without a
\* valid token it is rejected (401); an admin succeeds whatever the PIN; a
\* non-admin whose plan is not 'vip' is rejected with vip_or_admin_required
\* whatever the PIN; a non-admin with plan 'vip' is rejected with invalid_pin
\* when the PIN is missing or does not validate for the target site and
\* succeeds when it validates.  A success appends exactly one snapshot; every
\* rejection leaves the snapshots as they were.
C2_SettingsWriteDecision ==
    [][ (last'.op = "saveSettings" /\ Truthy(last'.site)
            /\ last'.settings # Absent)
        => LET a == last'.auth
               pinOk == PinValidates(sites, last'.site, last'.pin)
               rejectedWith(st, e) == /\ last'.status = st
                                      /\ last'.error = e
                                      /\ settings_kv' = settings_kv
               succeeded == /\ last'.status = 200
                            /\ Len(settings_kv') = Len(settings_kv) + 1
                            /\ SubSeq(settings_kv', 1, Len(settings_kv))
                                  = settings_kv
           IN  /\ ~Authenticated(a) => last'.status = 401
                                       /\ settings_kv' = settings_kv
               /\ IsAdminCaller(a) => succeeded
               /\ (Authenticated(a) /\ ~IsAdminCaller(a) /\ ~IsVipCaller(a))
                     => rejectedWith(403, "vip_or_admin_required")
               /\ (IsVipCaller(a) /\ ~IsAdminCaller(a) /\ ~pinOk)
                     => rejectedWith(403, "invalid_pin")
               /\ (IsVipCaller(a) /\ ~IsAdminCaller(a) /\ pinOk) => succeeded
               /\ last'.status # 200 => settings_kv' = settings_kv ]_vars

\* a non-admin caller whose plan is not 'vip' sent the site's right PIN and
\* was refused
C2_Witness ==
    /\ last.op = "saveSettings"
    /\ Authenticated(last.auth)
    /\ ~IsAdminCaller(last.auth) /\ ~IsVipCaller(last.auth)
    /\ PinValidates(sites, last.site, last.pin)
    /\ last.status = 403 /\ last.error = "vip_or_admin_required"

\* the caller may change approval flags through a request naming this site
\* with this PIN
MayApprove(auth, ss, site, pin) ==
    \/ IsAdminCaller(auth)
    \/ IsVipCaller(auth) /\ PinValidates(ss, site, pin)

\* C3: the approved flag of a feedback changes only in a step that is an
\* approval request made by an admin, or by a caller with plan 'vip' whose
\* PIN validates for the site named in the request; an approval request of
\* any other caller (no token, invalid token, plan not 'vip', 'vip' with a
\* missing or wrong PIN) is rejected and changes no feedback.
C3_ApprovalOnlyByAdminOrVipWithPin ==
    [][ /\ (\E i \in 1..Len(feedbacks) :
               feedbacks'[i].approved # feedbacks[i].approved)
           => /\ last'.op = "approveFeedback"
              /\ MayApprove(last'.auth, sites, last'.site, last'.pin)
        /\ (last'.op = "approveFeedback"
               /\ ~MayApprove(last'.auth, sites, last'.site, last'.pin))
           => /\ last'.status \in {400, 403}
              /\ feedbacks' = feedbacks ]_vars

\* a non-admin 'vip' caller with the right PIN has revoked the approval of
\* the first seeded feedback
C3_Witness ==
    /\ last.op = "approveFeedback"
    /\ ~IsAdminCaller(last.auth) /\ IsVipCaller(last.auth)
    /\ last.status = 200
    /\ last.id = 1 /\ last.approved = "false"
    /\ ~feedbacks[1].approved

\* the feedbacks of the site a read names that are approved now
ApprovedOf(fb, site) ==
    {i \in 1..Len(fb) :
        fb[i].site_slug = ToUpperCase(Trim(site)) /\ fb[i].approved}

ReturnedIds(rows) == {rows[k].id : k \in DOMAIN rows}

AnonymousRead ==
    /\ last.op = "getFeedbacks"
    /\ ~Authenticated(last.auth)
    /\ last.status = 200

NoPrivateFields(rows) ==
    \A k \in DOMAIN rows :
        "email" \notin DOMAIN rows[k] /\ "phone" \notin DOMAIN rows[k]

\* C4 as stated: a feedback read made without authentication returns exactly
\* the feedbacks of the site that are approved at that moment, and no
\* returned row has an email or a phone field.
C4_AnonymousReadExactlyApproved ==
    AnonymousRead =>
        /\ ReturnedIds(last.feedbacks) = ApprovedOf(feedbacks, last.site)
        /\ NoPrivateFields(last.feedbacks)

\* C4, amended: a feedback read made without authentication returns the
\* requested page of the feedbacks of the site that are approved at that
\* moment: only such feedbacks, each at most once, as many as the page holds
\* (all of them when they fit in the first page), with total equal to their
\* number; and no returned row has an email or a phone field.
C4_AnonymousReadPageOfApproved ==
    AnonymousRead =>
        LET rows == last.feedbacks
            appr == ApprovedOf(feedbacks, last.site)
            offset == (last.page - 1) * last.pageSize
            rest == IF Cardinality(appr) > offset
                    THEN Cardinality(appr) - offset ELSE 0
        IN  /\ ReturnedIds(rows) \subseteq appr
            /\ \A k \in DOMAIN rows : rows[k].approved
            /\ Cardinality(ReturnedIds(rows)) = Len(rows)
            /\ Len(rows) = (IF rest < last.pageSize THEN rest
                            ELSE last.pageSize)
            /\ last.total = Cardinality(appr)
            /\ (last.page = 1 /\ Cardinality(appr) <= last.pageSize)
                  => ReturnedIds(rows) = appr
            /\ NoPrivateFields(rows)

\* an anonymous read of a site that has an approved and an unapproved
\* feedback returned a row
C4_Witness ==
    /\ AnonymousRead
    /\ Len(last.feedbacks) >= 1
    /\ \E i \in 1..Len(feedbacks) :
          /\ feedbacks[i].site_slug = ToUpperCase(Trim(last.site))
          /\ ~feedbacks[i].approved

HasVipPinKey(settings) ==
    settings.security # Absent /\ settings.security[1].vip_pin # Absent

\* C5: no stored settings snapshot contains a security.vip_pin key, whatever
\* payload was passed to a settings write or a section-definition upsert and
\* whatever value (an empty one included) the caller gave to
\* security.vip_pin; and getSettings never returns a security.vip_pin key.
C5_NoVipPinStoredOrReturned ==
    /\ \A i \in 1..Len(settings_kv) : ~HasVipPinKey(settings_kv[i].settings_json)
    /\ (last.op = "getSettings" => ~HasVipPinKey(last.settings))

-----------------------------------------------------------------------------
(* Asset permissions, tenant isolation, slugs *)

AssetRequest(l) == l.op \in {"putAsset", "deleteAsset"}

\* C11: an asset write or delete is permitted if and only if the caller is
\* authenticated and is an admin, or has plan 'vip', or has a billing status
\* in the active whitelist (so an 'essential' client whose billing is active
\* is permitted); every other authenticated caller is rejected with
\* vip_or_admin_required, and a rejected request changes no asset record.
C11_AssetWritePermission ==
    [][ AssetRequest(last') =>
          LET a == last'.auth
              entitled ==
                 /\ Authenticated(a)
                 /\ \/ a.user.role = "admin"
                    \/ a.user.plan = "vip"
                    \/ users[a.user.id].billing_status
                          \in {"approved", "authorized", "accredited",
                               "recurring_charges"}
          IN  /\ entitled <=> last'.status \notin {401, 403}
              /\ (Authenticated(a) /\ ~entitled)
                    => /\ last'.status = 403
                       /\ last'.error = "vip_or_admin_required"
              /\ last'.status \in {401, 403} => assets' = assets ]_vars

SiteRead(l) == l.op \in {"getLeads", "getDailyStats", "getSiteStatus"}

\* the caller is an admin, or the authenticated user whose own site slug
\* equals the requested slug once both are trimmed and upper-cased
MayReadSite(auth, site) ==
    /\ Authenticated(auth)
    /\ \/ auth.user.role = "admin"
       \/ /\ auth.user.siteSlug # NULL
          /\ ToUpperCase(Trim(auth.user.siteSlug)) = ToUpperCase(Trim(site))

\* C12: a read of a site's leads, traffic statistics or site status is
\* granted if and only if the caller is an admin or the authenticated user
\* whose own site slug equals the requested slug after normalization of both;
\* every other caller is refused (access_denied when authenticated) and
\* receives no data of the site.
C12_SiteReadOnlyByAdminOrOwner ==
    (SiteRead(last) /\ Truthy(last.site)) =>
        /\ MayReadSite(last.auth, last.site) <=> last.status \notin {401, 403}
        /\ (Authenticated(last.auth) /\ ~MayReadSite(last.auth, last.site))
              => last.status = 403 /\ last.error = "access_denied"
        /\ ~MayReadSite(last.auth, last.site) => last.data = <<>>

\* the feedbacks of the site a read names, approved or not
FeedbacksOf(fb, site) ==
    {i \in 1..Len(fb) : fb[i].site_slug = ToUpperCase(Trim(site))}

\* C13: a feedback read is elevated to full access (unapproved rows and the
\* email and phone fields included) if and only if the caller presents a
\* valid token and is an admin, or has plan 'vip' and supplies a PIN that
\* validates for the target site; every other read (missing or invalid
\* token, another plan, missing or wrong PIN) gets the public-safe result,
\* and none gets an error.
C13_FeedbackReadElevation ==
    (last.op = "getFeedbacks" /\ Truthy(last.site)) =>
        LET rows == last.feedbacks
            full == MayApprove(last.auth, sites, last.site, last.pin)
        IN  /\ last.status = 200
            /\ full =>
                 /\ last.total = Cardinality(FeedbacksOf(feedbacks, last.site))
                 /\ ReturnedIds(rows) \subseteq FeedbacksOf(feedbacks, last.site)
                 /\ \A k \in DOMAIN rows :
                       /\ "email" \in DOMAIN rows[k]
                       /\ "phone" \in DOMAIN rows[k]
                       /\ rows[k].email = feedbacks[rows[k].id].email
            /\ ~full =>
                 /\ last.total = Cardinality(ApprovedOf(feedbacks, last.site))
                 /\ ReturnedIds(rows) \subseteq ApprovedOf(feedbacks, last.site)
                 /\ NoPrivateFields(rows)

\* a non-admin 'vip' caller with the right PIN was shown an unapproved
\* feedback with its email field
C13_Witness ==
    /\ last.op = "getFeedbacks"
    /\ ~IsAdminCaller(last.auth) /\ IsVipCaller(last.auth)
    /\ \E k \in DOMAIN last.feedbacks :
          /\ ~last.feedbacks[k].approved
          /\ "email" \in DOMAIN last.feedbacks[k]

\* C14: a section-definition upsert naming a site and carrying defs succeeds
\* without a PIN for an admin; for any other authenticated caller it succeeds
\* if and only if the supplied PIN validates for the target site, whatever
\* the caller's plan; otherwise it fails with invalid_pin and appends no
\* settings snapshot.  A success appends exactly one snapshot.
C14_UpsertDecision ==
    [][ (last'.op = "upsertSectionDefs" /\ Authenticated(last'.auth)
            /\ Truthy(last'.site) /\ last'.defs.kind # "absent")
        => LET pinOk == PinValidates(sites, last'.site, last'.pin)
               allowed == IsAdminCaller(last'.auth) \/ pinOk
           IN  /\ allowed => /\ last'.status = 200
                             /\ Len(settings_kv') = Len(settings_kv) + 1
                             /\ SubSeq(settings_kv', 1, Len(settings_kv))
                                   = settings_kv
               /\ ~allowed => /\ last'.status = 403
                              /\ last'.error = "invalid_pin"
                              /\ settings_kv' = settings_kv ]_vars

\* a caller who is neither admin nor 'vip' upserted definitions with the
\* site's PIN
C14_Witness ==
    /\ last.op = "upsertSectionDefs"
    /\ Authenticated(last.auth)
    /\ ~IsAdminCaller(last.auth) /\ ~IsVipCaller(last.auth)
    /\ PinValidates(sites, last.site, last.pin)
    /\ last.status = 200

\* raw slugs that differ in surrounding whitespace and letter case
RawSlugs == {<<"s">>, <<" ", "s">>, <<"S", " ">>, <<"d">>, <<" ", "D", " ">>}

IsNormalized(slug) == slug = ToUpperCase(Trim(slug))

\* C15: normalizeSiteSlug is idempotent and maps two raw slugs that differ
\* only in surrounding whitespace or letter case to the same value, and
\* every site slug stored in any table (sites, users, settings, feedbacks,
\* leads, assets), a user's siteSlug written by createUser included, is in
\* normalized form, so that slug-keyed lookups find the same records for
\* both raw slugs.
C15_SlugsNormalizedEverywhere ==
    /\ \A a \in RawSlugs :
          normalizeSiteSlug(normalizeSiteSlug(a)) = normalizeSiteSlug(a)
    /\ \A a, b \in RawSlugs :
          ToLowerCase(Trim(a)) = ToLowerCase(Trim(b))
             => normalizeSiteSlug(a) = normalizeSiteSlug(b)
    /\ \A n \in DOMAIN sites : IsNormalized(n)
    /\ \A i \in 1..Len(users) :
          users[i].site_slug # NULL => IsNormalized(users[i].site_slug)
    /\ \A i \in 1..Len(settings_kv) : IsNormalized(settings_kv[i].site_slug)
    /\ \A i \in 1..Len(feedbacks) : IsNormalized(feedbacks[i].site_slug)
    /\ \A i \in 1..Len(leads) : IsNormalized(leads[i].site_slug)
    /\ \A a \in assets : IsNormalized(a.site_slug)

\* C16: validateVipPin(slug, pin) never raises, and returns true if and only
\* if the site exists, has a PIN set, pin is non-empty and pin is the PIN
\* most recently stored for the site by createSite or setVipPin; after a
\* successful setVipPin(slug, p2) exactly p2 validates, so an earlier p1
\* different from p2 no longer does; setVipPin on an absent slug fails with
\* site_not_found and changes no site.
C16_PinValidation ==
    [][ /\ last'.op = "validateVipPin"
           => /\ last'.result \in {"true", "false"}
              /\ last'.result = "true"
                    <=> PinValidates(sites, last'.slug, last'.pin)
        /\ (last'.op = "setVipPin" /\ last'.err = "none")
           => \A p \in PinInputs :
                 validateVipPinOutcome(sites', last'.slug, p) = "true"
                    <=> (p = last'.pin /\ p # <<>>)
        /\ (last'.op = "setVipPin"
               /\ ToUpperCase(Trim(last'.slug)) \notin DOMAIN sites)
           => last'.err = "site_not_found" /\ sites' = sites ]_vars

SiteAddressed(l) ==
    l.op \in {"saveSettings", "upsertSectionDefs", "createFeedback",
              "createLead", "putAsset"}

ActiveSite(ss, site) ==
    /\ IsString(site)
    /\ ToUpperCase(Trim(site)) \in DOMAIN ss
    /\ ss[ToUpperCase(Trim(site))].active

\* C17: an operation addressed to a site slug (settings write,
\* section-definition upsert, feedback creation, lead creation, asset write)
\* is performed only when a site with that slug exists and is active, so it
\* is refused while the site is deactivated; and no record of any table is
\* ever held for a slug that names no site.
C17_OnlyExistingActiveSites ==
    [][ /\ (SiteAddressed(last') /\ last'.status = 200)
           => ActiveSite(sites, last'.site)
        /\ \A i \in 1..Len(settings_kv') :
              settings_kv'[i].site_slug \in DOMAIN sites'
        /\ \A i \in 1..Len(feedbacks') :
              feedbacks'[i].site_slug \in DOMAIN sites'
        /\ \A i \in 1..Len(leads') : leads'[i].site_slug \in DOMAIN sites'
        /\ \A a \in assets' : a.site_slug \in DOMAIN sites' ]_vars

\* C18: at most one execution of processGracePeriodCheck is in progress at
\* any time; the timer's callback never starts a sweep while an earlier one
\* is suspended at an await
C18_AtMostOneSweepInProgress == Len(running) <= 1

\* a sweep suspended at its await with a row cancelled and rows still to do
C18_Witness ==
    /\ Len(running) = 1
    /\ running[1].updated # {}
    /\ running[1].rest # <<>>

\* the sites a run of the sweep deactivated: those named by the site_slug of
\* a user it cancelled
SweepDeactivated(us, ss, updated) ==
    {n \in DOMAIN ss :
        \E id \in updated : /\ Truthy(us[id].site_slug)
                            /\ normalizeSiteSlug(us[id].site_slug) = n}

\* C19: the result of processGracePeriodCheck has processed equal to the
\* number of users this run set to 'cancelled', and deactivatedSites names
\* exactly the sites this run deactivated: no slug whose deactivation failed
\* or that names no site, and every site that was deactivated
C19_SweepResultExact ==
    [][last'.op = "processGracePeriodCheck" /\ last'.err = "none" =>
          /\ last'.processed = Cardinality(last'.updated)
          /\ \A k \in 1..Len(last'.deactivatedSites) :
                last'.deactivatedSites[k] \notin last'.failed
          /\ {normalizeSiteSlug(last'.deactivatedSites[k]) :
                 k \in 1..Len(last'.deactivatedSites)}
             = SweepDeactivated(users, sites', last'.updated)]_vars


\* the snapshot the most recent write for slug n appended: rows are kept in
\* insertion order
LastWritten(kv, n) ==
    LET rows == {i \in 1..Len(kv) : kv[i].site_slug = n}
    IN  CHOOSE i \in rows : \A j \in rows : j <= i

StoreWrite(l) == l.op \in {"saveSettingsCall", "upsertSectionDefsCall"}

\* C20: the settings store is append-only: a successful write or upsert
\* appends exactly one snapshot for the normalized slug and no step changes
\* or removes a snapshot; getSettings returns the content of the snapshot
\* appended by the most recent write for the slug, without security.vip_pin,
\* also when writes share one clock value, and the default structure when
\* the slug has no snapshot
C20_AppendOnlyLatestRead ==
    [][/\ Len(settings_kv') >= Len(settings_kv)
       /\ SubSeq(settings_kv', 1, Len(settings_kv)) = settings_kv
       /\ StoreWrite(last') /\ last'.err = "none" =>
             /\ Len(settings_kv') = Len(settings_kv) + 1
             /\ settings_kv'[Len(settings_kv')].site_slug
                = normalizeSiteSlug(last'.siteSlug)
       /\ last'.op = "getSettingsCall" =>
             LET n == normalizeSiteSlug(last'.siteSlug)
             IN  IF \E i \in 1..Len(settings_kv) : settings_kv[i].site_slug = n
                 THEN last'.settings
                      = StripPinOnRead(
                            settings_kv[LastWritten(settings_kv, n)]
                                .settings_json)
                 ELSE last'.settings = DefaultSettings]_vars

\* C21: approveFeedback(id, approved, isPublic) on an existing id sets the
\* approved flag and the public-visibility flag to the given values, leaves
\* a flag the caller did not specify unchanged and changes no other feedback;
\* applied again it changes nothing; on an id that matches no feedback it
\* fails with FeedbackNotFound and changes nothing
C21_ApprovalSetsGivenFlags ==
    [][last'.op = "updateFeedbackApproval" /\ last'.status # 400 =>
          IF last'.id \in 1..Len(storageFeedbacks)
          THEN /\ last'.status = 200
               /\ Len(storageFeedbacks') = Len(storageFeedbacks)
               /\ storageFeedbacks'[last'.id].approved
                  = (last'.approved = "true")
               /\ storageFeedbacks'[last'.id].isPublic
                  = IF last'.isPublic = Absent
                    THEN storageFeedbacks[last'.id].isPublic
                    ELSE last'.isPublic[1]
               /\ \A i \in 1..Len(storageFeedbacks) :
                     i # last'.id => storageFeedbacks'[i] = storageFeedbacks[i]
               /\ updateFeedbackApproval(storageFeedbacks', last'.id,
                      storageFeedbacks'[last'.id].approved,
                      storageFeedbacks'[last'.id].isPublic)
                  = storageFeedbacks'
          ELSE /\ last'.status = 404
               /\ last'.error = "feedback_not_found"
               /\ storageFeedbacks' = storageFeedbacks]_vars

\* C22: createFeedback inserts a row exactly when the rating is an integer
\* between 1 and 5 and the comment is non-empty; a missing rating or comment
\* fails with MissingFields, a rating out of range or not an integer with
\* InvalidRating, a failed call inserts nothing, and the inserted row has
\* approved = false and an integer rating in 1..5
C22_CreateFeedbackValidates ==
    [][last'.op = "createFeedback" /\ Truthy(last'.site) =>
          LET valid == /\ IsInteger(last'.rating)
                       /\ last'.rating >= Stars(1)
                       /\ last'.rating <= Stars(5)
                       /\ Truthy(last'.comment)
              n == Len(feedbacks')
          IN  /\ valid <=> (last'.status = 200 /\ n = Len(feedbacks) + 1)
              /\ ~valid => feedbacks' = feedbacks
              /\ (last'.rating = 0 \/ ~Truthy(last'.comment)) <=>
                    last'.error \in {"rating_and_comment_required",
                                     "site_rating_and_comment_required"}
              /\ (~valid /\ last'.rating # 0 /\ Truthy(last'.comment)) =>
                    last'.error = "rating_must_be_between_1_and_5"
              /\ n > Len(feedbacks) =>
                    /\ SubSeq(feedbacks', 1, Len(feedbacks)) = feedbacks
                    /\ ~feedbacks'[n].approved
                    /\ IsInteger(feedbacks'[n].rating)
                    /\ feedbacks'[n].rating \in Stars(1)..Stars(5)]_vars

C24_OverdueAndGraceEnd ==
    (last.op = "getSubscriptionStatus" /\ last.err = "none") =>
        LET u == users[last.uid]
            r == last.res
        IN  IF u.billing_next # NullDate
            THEN /\ r.isOverdue <=> (ParseDate(u.billing_next) < now)
                 /\ r.gracePeriodEnd # NullDate
                 /\ ParseDate(r.gracePeriodEnd)
                    = ParseDate(u.billing_next) + GRACE_DAYS * UnitsPerDay
                 /\ (last.uid \in
                       {overdueUsers(users, now)[k] :
                           k \in 1..Len(overdueUsers(users, now))})
                    <=> /\ ParseDate(r.gracePeriodEnd) < now
                        /\ u.billing_status \notin {"cancelled", "suspended"}
            ELSE /\ ~r.isOverdue
                 /\ r.gracePeriodEnd = NullDate
                 /\ \A k \in 1..Len(overdueUsers(users, now)) :
                       overdueUsers(users, now)[k] # last.uid

\* C25: an approval request of a caller who is not an admin changes only a
\* feedback of the site named in the request, the site whose PIN the caller
\* supplied: no feedback of another site is approved or un-approved by it
C25_ApprovalWithinPinSite ==
    [][(last'.op = "approveFeedback" /\ ~IsAdminCaller(last'.auth)) =>
          \A i \in 1..Len(feedbacks) :
              feedbacks'[i] # feedbacks[i] =>
                  /\ IsString(last'.site)
                  /\ feedbacks[i].site_slug = normalizeSiteSlug(last'.site)]_vars

\* the plan the users table holds for the caller of a request
StoredPlan(auth) == users[auth.user.id].plan

NonAdminRequest(l) ==
    /\ l.op \in {"saveSettings", "approveFeedback", "putAsset"}
    /\ Authenticated(l.auth)
    /\ ~IsAdminCaller(l.auth)

\* C26: the decisions that depend on the plan use the plan currently stored
\* for the user: after upgradePlan has made a 'vip' user 'essential', that
\* user's settings writes, approvals and asset writes are refused as non-VIP,
\* and after it has made an 'essential' user 'vip' they are decided as VIP,
\* without a new login
C26_DecisionsUseStoredPlan ==
    [][NonAdminRequest(last') =>
          /\ (last'.op = "saveSettings" /\ last'.status # 400) =>
                (last'.error = "vip_or_admin_required"
                   <=> StoredPlan(last'.auth) # "vip")
          /\ (last'.op = "approveFeedback" /\ last'.status \in {200, 404}) =>
                StoredPlan(last'.auth) = "vip"
          /\ (last'.op = "putAsset" /\ StoredPlan(last'.auth) = "vip") =>
                last'.status # 403]_vars

\* C28: updateBillingStatus is all-or-nothing: when it ends with an error
\* (UserNotFound, or SiteNotFound from the reactivation of a site_slug that
\* names no site) the user's billing fields are as they were before the call
C28_UpdateBillingAllOrNothing ==
    [][(last'.op = "updateBillingStatus" /\ last'.err # "none") =>
          users' = users]_vars

\* the asset records of the sites other than the caller's own
ForeignAssets(as, auth) ==
    {a \in as : ~IsString(auth.user.siteSlug)
                \/ a.site_slug # normalizeSiteSlug(auth.user.siteSlug)}

\* C29: an asset write or delete request of a caller who is not an admin
\* leaves the asset records of every site but the caller's own unchanged;
\* and a site holds at most one asset record per key
C29_AssetsWithinOwnSite ==
    [][/\ (/\ last'.op \in {"putAsset", "deleteAsset"}
           /\ Authenticated(last'.auth)
           /\ ~IsAdminCaller(last'.auth)) =>
              ForeignAssets(assets', last'.auth)
              = ForeignAssets(assets, last'.auth)
       /\ \A a, b \in assets' :
             (a.site_slug = b.site_slug /\ a.key = b.key) => a = b]_vars

SweepStep(l) == l.op \in {"sweepSuspended", "sweepReturned"}

CurrentSettings(kv, n) ==
    IF \E i \in 1..Len(kv) : kv[i].site_slug = n
    THEN StripPinOnRead(kv[LastWritten(kv, n)].settings_json)
    ELSE DefaultSettings

\* C30: a successful upsertSectionDefs(slug, defs) makes current a settings
\* value whose sections.defs is defs (the empty list when defs is not a
\* list) and whose sections.data and other top-level keys are those of the
\* settings current for the slug immediately before: nothing written by an
\* earlier successful write is lost
C30_UpsertKeepsCurrentSettings ==
    [][(last'.op = "upsertSectionDefsCall" /\ last'.err = "none") =>
          LET n == normalizeSiteSlug(last'.siteSlug)
              before == CurrentSettings(settings_kv, n)
              after == CurrentSettings(settings_kv', n)
          IN  /\ after.sections # Absent
              /\ after.sections[1].defs
                 = IF last'.defs.kind = "array" THEN last'.defs.items
                   ELSE <<>>
              /\ after.sections[1].data
                 = IF before.sections # Absent THEN before.sections[1].data
                   ELSE "{}"
              /\ after.security = before.security
              /\ after.colors = before.colors]_vars

====
